---- MODULE Spec2Model ----
(***************************************************************************)
(* DentalResearchBot: feed ingestion, article de-duplication and per-user   *)
(* delivery bookkeeping (scheduler.py, repository.py, the /latest and the   *)
(* journal-fetch handlers).                                                 *)
(*                                                                          *)
(* The store is the database behind Repository.  It outlives the process,   *)
(* so the state after construction ranges over stores that satisfy the      *)
(* schema (models.py): articles with unique link and link_hash.             *)
(*                                                                          *)
(* Every `await` on the repository is one atomic store operation (one       *)
(* session); every network await (feed fetch, tailoring, channel send) is   *)
(* a step of its own whose outcome is chosen by the environment.            *)
(***************************************************************************)
EXTENDS Integers, Sequences, FiniteSets, TLC

(* ---------------------------------------------------------------- bounds *)
NUsers == 2
NJournals == 3
NLinks == 4
NStored == 2
MaxFeed == 2
MaxPasses == 2
MaxSubs == 2
NCallers == 2
BacklogSize == 25
MaxSegs == 3
MaxEntries == 2
CatalogueSize == 7

(* ------------------------------------------------------ program constants *)
UnsentLimit == 20
LatestBatch == 5
FetchBatch == 3
AbstractMin == 50

Users == 1..NUsers
Journals == 1..NJournals
Links == 1..NLinks

VARIABLES
  users,         \* users table: telegram id -> "absent" | "new" | "onboarded"
  subs,          \* user_journals table: <<user, journal>> -> the is_active of its rows
  articles,      \* articles table: sequence of rows, the index is Article.id
  sent,          \* sent_articles table: <<user, article>> -> its rows, oldest first
  last_checked,  \* Journal.last_checked as a logical timestamp, 0 = NULL
  feed,          \* what each journal's feed URL serves: links in feed order
  delivered,     \* the channel: <<user, article>> -> number of accepted sends
  sched,         \* the APScheduler job check_all_feeds
  sync,          \* the startup task sync_all_feeds_silent
  hnd,           \* the update being handled (python-telegram-bot handles one at a time)
  runs,          \* per journal, what each finished check_journal_feed of a scheduled pass did
  callers,       \* tasks inside Repository.create_article
  notif,         \* a task inside FeedScheduler.notify_subscribers
  needs_scraping, \* Journal.needs_scraping, loaded from the journal list at startup
  abstracts,     \* per link, whether its feed entry carries an abstract
  scraped,       \* the calls of AbstractScraper.scrape_abstract made so far
  escaped,       \* the exceptions that left a handler (no error handler is registered)
  syncs,         \* per journal, what the silent sync did when it processed it
  feed_content,  \* what FeedParser._parse_feed_content is given: feedparser's view of it
  parsed,        \* what the call of _parse_feed_content returned
  dispatch,      \* a dispatch of a tailored message, attempt by attempt
  exported       \* what the last handle_export_callback rendered

vars == <<users, subs, articles, sent, last_checked, feed, delivered, sched, sync, hnd, runs,
          callers, notif, needs_scraping, abstracts, scraped, escaped, syncs,
          feed_content, parsed, dispatch, exported>>

(* ------------------------------------------------------------- helpers *)
\* The journal a link belongs to: a feed serves its own journal's articles.
JournalOf(l) == ((l - 1) % NJournals) + 1

Min(a, b) == IF a < b THEN a ELSE b

Range(s) == {s[i] : i \in DOMAIN s}

Take(s, n) == SubSeq(s, 1, Min(Len(s), n))

\* All sequences without repetition over the set S of length at most n.
RECURSIVE InjSeqs(_, _)
InjSeqs(S, n) ==
  IF n = 0 \/ S = {} THEN {<<>>}
  ELSE {<<>>} \cup UNION {{<<x>> \o t : t \in InjSeqs(S \ {x}, n - 1)} : x \in S}

(* ------------------------------------------------------- repository.py *)
\* Repository.hash_link: the MD5 hex digest of the link, taken as collision free.
hash_link(link) == <<"md5", link>>

ArticleIds == DOMAIN articles

\* A lookup that finds no link.
NeverStored(link) == FALSE

\* Repository.article_exists: a row with the link's hash exists.
article_exists(link) == \E i \in ArticleIds : articles[i].link_hash = hash_link(link)

\* Repository.get_article_by_link: the id of the row with the link's hash, 0 for None.
get_article_by_link(link) ==
  IF article_exists(link)
  THEN CHOOSE i \in ArticleIds : articles[i].link_hash = hash_link(link)
  ELSE 0

\* The user_journals rows of the pair: their is_active flags, oldest row first.
SubRows(u, j) == IF <<u, j>> \in DOMAIN subs THEN subs[<<u, j>>] ELSE <<>>

ActiveSub(u, j) == \E i \in DOMAIN SubRows(u, j) : SubRows(u, j)[i]

\* The number of rows of user_journals.
RECURSIVE RowCount(_, _)
RowCount(f, D) ==
  IF D = {} THEN 0
  ELSE LET p == CHOOSE q \in D : TRUE IN Len(f[p]) + RowCount(f, D \ {p})

\* Repository.get_user_subscriptions: journals the user has an active row for.
get_user_subscriptions(u) == {j \in Journals : users[u] # "absent" /\ ActiveSub(u, j)}

\* A set of integers as the ascending sequence.
RECURSIVE SortedSeq(_)
SortedSeq(S) ==
  IF S = {} THEN <<>>
  ELSE LET m == CHOOSE x \in S : \A y \in S : x <= y IN <<m>> \o SortedSeq(S \ {m})

\* Repository.get_users_subscribed_to_journal: users joined with their active rows
\* for the journal, onboarding complete.
get_users_subscribed_to_journal(j) ==
  SortedSeq({u \in Users : users[u] = "onboarded" /\ ActiveSub(u, j)})

\* The sent_articles rows of the pair, oldest first.
SentRows(u, a) == IF <<u, a>> \in DOMAIN sent THEN sent[<<u, a>>] ELSE <<>>

\* Repository.was_article_sent_to_user: False for an unknown user; scalar_one_or_none
\* raises MultipleResultsFound when the pair has more than one row.
was_article_sent_to_user(u, a) ==
  IF users[u] = "absent" THEN "no"
  ELSE IF Len(SentRows(u, a)) > 1 THEN "raise"
  ELSE IF Len(SentRows(u, a)) = 1 THEN "yes" ELSE "no"

\* Repository.mark_article_sent: adds a row for the pair (the caller's user row
\* exists).  via and dispatched record which path wrote the row and whether the
\* channel had accepted the message; they are not columns.
mark_article_sent(u, a, via, ok) ==
  [p \in DOMAIN sent \cup {<<u, a>>} |->
     IF p = <<u, a>> THEN Append(SentRows(u, a), [via |-> via, dispatched |-> ok])
     ELSE sent[p]]

\* Every order the rows of S can come back in under ORDER BY fetched_at DESC,
\* cut after n rows (rows of equal fetched_at come in any order).
RECURSIVE OrderedByFetchedDesc(_, _)
OrderedByFetchedDesc(S, n) ==
  IF S = {} \/ n = 0 THEN {<<>>}
  ELSE LET top == {a \in S : \A b \in S : articles[b].fetched_at <= articles[a].fetched_at}
       IN UNION {{<<a>> \o t : t \in OrderedByFetchedDesc(S \ {a}, n - 1)} : a \in top}

\* A query that leaves out the filter on the articles already sent to the user.
BacklogIgnoringLedger(u) ==
  {a \in ArticleIds : articles[a].journal \in {j \in Journals : ActiveSub(u, j)}}

\* A query that leaves out the join with the user's active subscriptions.
UnsentOfAnyJournal(u) == {a \in ArticleIds : SentRows(u, a) = <<>>}

\* The articles the query of get_unsent_articles_for_user selects before ordering.
UnsentSet(u) ==
  {a \in ArticleIds :
     /\ articles[a].journal \in {j \in Journals : ActiveSub(u, j)}
     /\ SentRows(u, a) = <<>>}

\* A query that applies its LIMIT to the newest articles of the subscribed journals
\* and leaves out the sent ones afterwards.
LimitBeforeFilter(u) ==
  IF users[u] = "absent" THEN {<<>>}
  ELSE IF {j \in Journals : ActiveSub(u, j)} = {} THEN {<<>>}
  ELSE {SelectSeq(r, LAMBDA a : SentRows(u, a) = <<>>) :
          r \in OrderedByFetchedDesc(BacklogIgnoringLedger(u), UnsentLimit)}

\* Repository.get_unsent_articles_for_user: the possible results.
get_unsent_articles_for_user(u) ==
  IF users[u] = "absent" THEN {<<>>}
  ELSE IF {j \in Journals : ActiveSub(u, j)} = {} THEN {<<>>}
  ELSE OrderedByFetchedDesc(UnsentSet(u), UnsentLimit)

\* A subscribe that inserts a row without looking for the one that exists.
AlwaysInsert(u, j) ==
  IF users[u] = "absent" THEN subs
  ELSE [p \in DOMAIN subs \cup {<<u, j>>} |->
          IF p = <<u, j>> THEN Append(SubRows(u, j), TRUE) ELSE subs[p]]

\* Repository.subscribe_user_to_journal: the table after the call.  Raises ValueError
\* for an unknown user (and MultipleResultsFound for several rows): no change.
subscribe_user_to_journal(u, j) ==
  IF users[u] = "absent" \/ Len(SubRows(u, j)) > 1 THEN subs
  ELSE [p \in DOMAIN subs \cup {<<u, j>>} |->
          IF p = <<u, j>> THEN <<TRUE>> ELSE subs[p]]

\* Repository.unsubscribe_user_from_journal: the table after the call.
unsubscribe_user_from_journal(u, j) ==
  IF users[u] = "absent" \/ Len(SubRows(u, j)) # 1 THEN subs
  ELSE [subs EXCEPT ![<<u, j>>] = <<FALSE>>]

\* The number of sends the channel accepted for the pair.
Delivered(u, a) == IF <<u, a>> \in DOMAIN delivered THEN delivered[<<u, a>>] ELSE 0

\* The channel accepts one more message for the pair.
Accept(u, a) ==
  [p \in DOMAIN delivered \cup {<<u, a>>} |->
     IF p = <<u, a>> THEN Delivered(u, a) + 1 ELSE delivered[p]]

\* Repository.update_journal_last_checked: stamps the journal with the current time.
update_journal_last_checked(j) == [last_checked EXCEPT ![j] = @ + 1]

(* ------------------------------------------------------- feed_parser.py *)
\* A str is a sequence of segments [kind, n]: n characters of plain text, a tag
\* <...> of n characters, n whitespace characters, or n HTML entities; <<>> is ''.
\* A field of an entry is [has, v]: whether the entry has the key, and its value.
TextLens == {10, 40, 50}

Segs ==
  [kind : {"text"}, n : TextLens]
    \cup {[kind |-> "tag", n |-> 3], [kind |-> "space", n |-> 1],
          [kind |-> "entity", n |-> 1]}

\* All sequences over the set S of length at most n.
RECURSIVE SeqsUpTo(_, _)
SeqsUpTo(S, n) ==
  IF n = 0 THEN {<<>>}
  ELSE {<<>>} \cup UNION {{<<x>> \o t : t \in SeqsUpTo(S, n - 1)} : x \in S}

\* len(str).
RECURSIVE StrLen(_)
StrLen(s) == IF s = <<>> THEN 0 ELSE Head(s).n + StrLen(Tail(s))

\* re.sub(r'<[^>]+>', '', text).
RECURSIVE RemoveTags(_)
RemoveTags(s) ==
  IF s = <<>> THEN <<>>
  ELSE IF Head(s).kind = "tag" THEN RemoveTags(Tail(s))
  ELSE <<Head(s)>> \o RemoveTags(Tail(s))

\* html.unescape: every entity becomes the character it names.
Unescape(s) ==
  [i \in DOMAIN s |-> IF s[i].kind = "entity" THEN [kind |-> "text", n |-> s[i].n]
                      ELSE s[i]]

\* re.sub(r'\s+', ' ', clean): every run of whitespace becomes one space.
RECURSIVE CollapseSpace(_)
CollapseSpace(s) ==
  IF s = <<>> THEN <<>>
  ELSE LET r == CollapseSpace(Tail(s))
       IN IF Head(s).kind # "space" THEN <<Head(s)>> \o r
          ELSE IF r # <<>> /\ Head(r).kind = "space" THEN r
          ELSE <<[kind |-> "space", n |-> 1]>> \o r

\* str.strip of a str whose whitespace runs are single spaces.
Strip(s) ==
  LET a == IF s # <<>> /\ Head(s).kind = "space" THEN Tail(s) ELSE s
  IN IF a # <<>> /\ a[Len(a)].kind = "space" THEN SubSeq(a, 1, Len(a) - 1) ELSE a

\* FeedParser._clean_html.
_clean_html(text) ==
  IF text = <<>> THEN <<>>
  ELSE Strip(CollapseSpace(Unescape(RemoveTags(text))))

NoKey == [has |-> FALSE, v |-> <<>>]

Key(v) == [has |-> TRUE, v |-> v]

\* An Optional[str]: None, or the str v.
NoneStr == [none |-> TRUE, v |-> <<>>]

Str(v) == [none |-> FALSE, v |-> v]

\* not x, for an Optional[str] x.
Falsy(x) == x.none \/ x.v = <<>>

\* An extraction that keeps whatever text the entry carries.
KeepShortAbstract(entry) ==
  IF entry.summary.has THEN Str(_clean_html(entry.summary.v))
  ELSE IF entry.description.has THEN Str(_clean_html(entry.description.v))
  ELSE IF entry.content.has /\ entry.content.v # <<>>
       THEN Str(_clean_html(Head(entry.content.v).value.v))
  ELSE NoneStr

\* FeedParser._extract_abstract: summary, else description, else the value of the
\* first content block; a cleaned text under AbstractMin characters is None.
_extract_abstract(entry) ==
  LET abstract ==
        IF entry.summary.has THEN Str(entry.summary.v)
        ELSE IF entry.description.has THEN Str(entry.description.v)
        ELSE IF entry.content.has /\ entry.content.v # <<>>
             THEN Str(Head(entry.content.v).value.v)
        ELSE NoneStr
  IN IF ~Falsy(abstract)
     THEN IF StrLen(_clean_html(abstract.v)) < AbstractMin THEN NoneStr
          ELSE Str(_clean_html(abstract.v))
     ELSE abstract

\* A value that is not a str, among the names.
NonStr == "~object"

\* The names _extract_authors collects from entry.authors: author.get('name', '')
\* of a dict, str(author) of anything else, the empty ones left out.
RECURSIVE ListNames(_)
ListNames(items) ==
  IF items = <<>> THEN <<>>
  ELSE IF Head(items).name # "" THEN <<Head(items).name>> \o ListNames(Tail(items))
  ELSE ListNames(Tail(items))

\* What lines 99-102 add: entry.author when it is a str, the empty str included.
AuthorNames(entry) ==
  IF entry.author.has /\ entry.author.v # NonStr THEN <<entry.author.v>> ELSE <<>>

\* What lines 104-109 add: the items of a list dc_creator, or the value itself.
CreatorNames(entry) == IF entry.dc_creator.has THEN entry.dc_creator.v ELSE <<>>

\* FeedParser._extract_authors: the names of every source the entry has, in the
\* order authors, author, dc_creator, joined with ', ' (a str is given by the
\* names joined); None when there are none.  str.join raises TypeError for an item
\* that is not a str.
_extract_authors(entry) ==
  LET authors ==
        (IF entry.authors.has THEN ListNames(entry.authors.v) ELSE <<>>)
          \o AuthorNames(entry) \o CreatorNames(entry)
  IN IF authors = <<>> THEN [kind |-> "None", names |-> <<>>]
     ELSE IF NonStr \in Range(authors) THEN [kind |-> "TypeError", names |-> <<>>]
     ELSE [kind |-> "str", names |-> authors]

\* _parse_feed_content lines 189-196: entry.get('link', ''), else the href of the
\* first alternate link that is a dict with one; 0 is ''.
RECURSIVE FirstHref(_)
FirstHref(links) ==
  IF links = <<>> THEN 0
  ELSE IF Head(links).dict /\ Head(links).href # 0 THEN Head(links).href
  ELSE FirstHref(Tail(links))

EntryLink(entry) == IF entry.link # 0 THEN entry.link ELSE FirstHref(entry.links)

\* _parse_feed_content lines 182-221 for one entry: the ParsedArticle, "dropped"
\* for an entry without title or link, "raised" when the extraction raised.
ParseEntry(entry) ==
  IF _clean_html(entry.title.v) = <<>> THEN [outcome |-> "dropped"]
  ELSE IF EntryLink(entry) = 0 THEN [outcome |-> "dropped"]
  ELSE IF _extract_authors(entry).kind = "TypeError" THEN [outcome |-> "raised"]
  ELSE [outcome |-> "article", title |-> _clean_html(entry.title.v),
        link |-> EntryLink(entry), abstract |-> _extract_abstract(entry),
        authors |-> _extract_authors(entry)]

\* A loop that an entry's error ends: what was collected so far is returned.
StopAtEntryError(articles_so_far, rest) == articles_so_far

\* _parse_feed_content lines 219-221: the error of an entry is logged and the loop
\* continues with the entries after it.
RECURSIVE ParseEntries(_, _)
AfterEntryError(articles_so_far, rest) == ParseEntries(articles_so_far, rest)

\* The for loop of _parse_feed_content over the entries left.
ParseEntries(articles_so_far, entries) ==
  IF entries = <<>> THEN articles_so_far
  ELSE LET r == ParseEntry(Head(entries))
       IN IF r.outcome = "article"
          THEN ParseEntries(Append(articles_so_far, r), Tail(entries))
          ELSE IF r.outcome = "raised"
          THEN AfterEntryError(articles_so_far, Tail(entries))
          ELSE ParseEntries(articles_so_far, Tail(entries))

\* The content: feedparser.parse gives bozo and the entries; empty is '' or None.
NoContent == [empty |-> TRUE, bozo |-> FALSE, entries |-> <<>>]

NotParsed == [returned |-> FALSE, articles |-> <<>>]

\* FeedParser._parse_feed_content.
_parse_feed_content(content) ==
  IF content.empty THEN <<>>
  ELSE IF content.bozo /\ content.entries = <<>> THEN <<>>
  ELSE ParseEntries(<<>>, content.entries)

\* parse_from_url line 231: the content is parsed.
ParseFeed ==
  /\ ~parsed.returned
  /\ parsed' = [returned |-> TRUE, articles |-> _parse_feed_content(feed_content)]
  /\ UNCHANGED <<users, subs, articles, sent, last_checked, feed, delivered, sched, sync, hnd, runs, callers,
                 notif, needs_scraping, abstracts, scraped, escaped, syncs, feed_content, dispatch, exported>>

(* -------------------------------------------------------- process states *)
NoPass == [pc |-> "idle", id |-> 0, j |-> 0, cands |-> <<>>, k |-> 0,
           new_count |-> 0, fetch |-> "none"]

\* was and msg belong to handle_journal_callback: the is_active the store held for
\* the pair when the handler began, and the text the handler answers with.
NoHandler == [pc |-> "idle", kind |-> "none", user |-> 0, journal |-> 0,
              list |-> <<>>, n |-> 0, k |-> 0, article |-> 0, sendok |-> FALSE,
              was |-> FALSE, msg |-> "none"]

NoCall == [pc |-> "idle", journal |-> 0, link |-> 0, result |-> "none"]

NoNotify == [pc |-> "idle", article |-> 0, journal |-> 0, subscribers |-> <<>>,
             k |-> 0, sendok |-> FALSE, log |-> <<>>]

NoDispatch == [pc |-> "idle", site |-> "none", user |-> 0, article |-> 0,
               text |-> <<>>, attempts |-> <<>>]

\* message is the text of the message whose export button was pressed, content what
\* the handler hands to the renderer, source where it took it from.
NotExported == [user |-> 0, article |-> 0, message |-> <<>>, content |-> <<>>,
                source |-> "none"]

(* ------------------------------------------------------------------ Init *)
\* The catalogue row for a link stored before this run.
StoredRow(l, tie) ==
  [journal |-> JournalOf(l), link |-> l, link_hash |-> hash_link(l),
   fetched_at |-> IF tie THEN (l + 1) \div 2 ELSE l]

\* What the feed of journal j can serve: some of its own links, each once.
OwnFeeds(j) == InjSeqs({l \in Links : JournalOf(l) = j}, MaxFeed)

Init ==
  /\ users = [u \in Users |-> "absent"]
  /\ subs = [p \in {} |-> <<>>]
  /\ \E n \in 0..NStored, tie \in BOOLEAN :
       articles = [i \in 1..n |-> StoredRow(i, tie)]
  /\ sent = [p \in {} |-> <<>>]
  /\ last_checked = [j \in Journals |-> 0]
  /\ feed \in {f \in [Journals -> UNION {OwnFeeds(j) : j \in Journals}] :
               \A j \in Journals : f[j] \in OwnFeeds(j)}
  /\ delivered = [p \in {} |-> 0]
  /\ sched = NoPass
  /\ sync = [NoPass EXCEPT !.pc = "start"]
  /\ hnd = NoHandler
  /\ runs = [j \in Journals |-> <<>>]
  /\ callers = [c \in 1..NCallers |-> NoCall]
  /\ notif = NoNotify
  /\ needs_scraping = [j \in Journals |-> j = 1]
  /\ abstracts = [l \in Links |-> l # 1]
  /\ scraped = {}
  /\ escaped = {}
  /\ syncs = [j \in Journals |-> <<>>]
  /\ feed_content = NoContent
  /\ parsed = NotParsed
  /\ dispatch = NoDispatch
  /\ exported = NotExported

(* ------------------------------------------- scheduler.py: check_all_feeds *)
\* The loop of check_all_feeds moves to the journal after j, or the pass ends.
NextJournal(p) ==
  IF p.j < NJournals
  THEN [p EXCEPT !.pc = "fetch", !.j = p.j + 1, !.cands = <<>>, !.k = 0,
                 !.new_count = 0, !.fetch = "none"]
  ELSE [NoPass EXCEPT !.id = p.id]

\* What a finished check_journal_feed of the scheduled pass did.
RunRecord(p, outcome, stamped) ==
  [pass |-> p.id, fetch |-> p.fetch, feed |-> p.cands, outcome |-> outcome,
   new_count |-> p.new_count, stamped |-> stamped]

\* A pass that an error in one journal ends.
AbortPass(p) == [NoPass EXCEPT !.id = p.id]

\* check_all_feeds lines 71-72 (sync_all_feeds_silent lines 206-207): an error that
\* leaves the check of a journal is logged and the loop goes on.
AfterJournalError(p) == NextJournal(p)

\* An ingestion that scrapes whatever the feed supplied.
AlwaysEnrich(j, l) == TRUE

\* check_journal_feed lines 90-94 (the same test in sync_all_feeds_silent and in
\* handle_fetch_callback): the condition under which the abstract is scraped.
NeedsEnrichment(j, l) == needs_scraping[j] /\ ~abstracts[l]

\* The calls of scrape_abstract after the candidate l of journal j, not stored, was
\* prepared for create_article.  Each call is recorded with what held when it was made.
scrape_abstract(j, l) ==
  IF NeedsEnrichment(j, l)
  THEN scraped \cup {[link |-> l, journal |-> j, flagged |-> needs_scraping[j],
                      abstract |-> abstracts[l], stored |-> article_exists(l)]}
  ELSE scraped

\* The interval trigger fires; the job is not started while an instance of it runs.
\* get_all_journals returns the active journals ordered by name.
Tick ==
  /\ sched.pc = "idle"
  /\ sched.id < MaxPasses
  /\ sched' = [NoPass EXCEPT !.pc = "fetch", !.id = sched.id + 1, !.j = 1]
  /\ UNCHANGED <<users, subs, articles, sent, last_checked, feed, delivered, sync, hnd, runs, callers, notif,
                 needs_scraping, abstracts, scraped, escaped, syncs,
                 feed_content, parsed, dispatch, exported>>

\* FeedParser.parse_from_url: the candidates of the fetched content, or the empty
\* list when fetch_feed caught a transport error and returned None.
parse_from_url(j, ok) == IF ok THEN feed[j] ELSE <<>>

\* check_journal_feed line 82: the feed is fetched and parsed.
SchedFetch(ok) ==
  /\ sched.pc = "fetch"
  /\ LET c == parse_from_url(sched.j, ok)
     IN sched' = [sched EXCEPT !.pc = IF c = <<>> THEN "update" ELSE "cand",
                               !.cands = c, !.k = IF c = <<>> THEN 0 ELSE 1,
                               !.fetch = IF ok THEN "ok" ELSE "failed"]
  /\ UNCHANGED <<users, subs, articles, sent, last_checked, feed, delivered, sync, hnd, runs, callers, notif,
                 needs_scraping, abstracts, scraped, escaped, syncs,
                 feed_content, parsed, dispatch, exported>>

\* check_journal_feed lines 85-112 for one candidate.  A stored link is skipped.
\* For a link that is not stored, create_article is called with volume= and issue=,
\* which Repository.create_article does not accept: the call raises TypeError before
\* its body runs, the error leaves check_journal_feed and check_all_feeds catches it.
SchedCandidate ==
  /\ sched.pc = "cand"
  /\ IF article_exists(sched.cands[sched.k])
     THEN /\ sched' = IF sched.k < Len(sched.cands)
                      THEN [sched EXCEPT !.k = sched.k + 1]
                      ELSE [sched EXCEPT !.pc = "update"]
          /\ runs' = runs
          /\ scraped' = scraped
     ELSE /\ sched' = AfterJournalError(sched)
          /\ runs' = [runs EXCEPT ![sched.j] =
                        Append(@, RunRecord(sched, "raised", FALSE))]
          /\ scraped' = scrape_abstract(sched.j, sched.cands[sched.k])
  /\ UNCHANGED <<users, subs, articles, sent, last_checked, feed, delivered, sync, hnd, callers, notif,
                 needs_scraping, abstracts, escaped, syncs,
                 feed_content, parsed, dispatch, exported>>

\* check_journal_feed lines 114-117: the journal is stamped and new_count returned.
SchedUpdate ==
  /\ sched.pc = "update"
  /\ last_checked' = update_journal_last_checked(sched.j)
  /\ runs' = [runs EXCEPT ![sched.j] = Append(@, RunRecord(sched, "returned", TRUE))]
  /\ sched' = NextJournal(sched)
  /\ UNCHANGED <<users, subs, articles, sent, feed, delivered, sync, hnd, callers, notif,
                 needs_scraping, abstracts, scraped, escaped, syncs,
                 feed_content, parsed, dispatch, exported>>

(* ------------------------------------- scheduler.py: sync_all_feeds_silent *)
\* post_init starts the silent sync as a task of its own.
SyncStart ==
  /\ sync.pc = "start"
  /\ sync' = [NoPass EXCEPT !.pc = "fetch", !.j = 1]
  /\ UNCHANGED <<users, subs, articles, sent, last_checked, feed, delivered, sched, hnd, runs, callers, notif,
                 needs_scraping, abstracts, scraped, escaped, syncs,
                 feed_content, parsed, dispatch, exported>>

SyncFetch(ok) ==
  /\ sync.pc = "fetch"
  /\ LET c == parse_from_url(sync.j, ok)
     IN sync' = [sync EXCEPT !.pc = IF c = <<>> THEN "update" ELSE "cand",
                             !.cands = c, !.k = IF c = <<>> THEN 0 ELSE 1,
                             !.fetch = IF ok THEN "ok" ELSE "failed"]
  /\ UNCHANGED <<users, subs, articles, sent, last_checked, feed, delivered, sched, hnd, runs, callers, notif,
                 needs_scraping, abstracts, scraped, escaped, syncs,
                 feed_content, parsed, dispatch, exported>>

\* sync_all_feeds_silent lines 180-202 for one candidate: the same call of
\* create_article with volume= and issue=; the TypeError is caught per journal.
SyncCandidate ==
  /\ sync.pc = "cand"
  /\ IF article_exists(sync.cands[sync.k])
     THEN /\ sync' = IF sync.k < Len(sync.cands)
                     THEN [sync EXCEPT !.k = sync.k + 1]
                     ELSE [sync EXCEPT !.pc = "update"]
          /\ syncs' = syncs
          /\ scraped' = scraped
     ELSE /\ sync' = AfterJournalError(sync)
          /\ syncs' = [syncs EXCEPT ![sync.j] =
                         Append(@, RunRecord(sync, "raised", FALSE))]
          /\ scraped' = scrape_abstract(sync.j, sync.cands[sync.k])
  /\ UNCHANGED <<users, subs, articles, sent, last_checked, feed, delivered, sched, hnd, runs, callers, notif,
                 needs_scraping, abstracts, escaped,
                 feed_content, parsed, dispatch, exported>>

SyncUpdate ==
  /\ sync.pc = "update"
  /\ last_checked' = update_journal_last_checked(sync.j)
  /\ syncs' = [syncs EXCEPT ![sync.j] = Append(@, RunRecord(sync, "returned", TRUE))]
  /\ sync' = NextJournal(sync)
  /\ UNCHANGED <<users, subs, articles, sent, feed, delivered, sched, hnd, runs, callers, notif,
                 needs_scraping, abstracts, scraped, escaped,
                 feed_content, parsed, dispatch, exported>>

(* ------------------------------------------------ handlers: single steps *)
\* CommandHandler.start_command: get_or_create_user.
StartCommand(u) ==
  /\ hnd.pc = "idle"
  /\ users' = [users EXCEPT ![u] = IF @ = "absent" THEN "new" ELSE @]
  /\ UNCHANGED <<subs, articles, sent, last_checked, feed, delivered, sched, sync, hnd, runs, callers, notif,
                 needs_scraping, abstracts, scraped, escaped, syncs,
                 feed_content, parsed, dispatch, exported>>

\* OnboardingHandler._complete_onboarding: update_user(onboarding_complete=True),
\* which changes nothing for an unknown user.
CompleteOnboarding(u) ==
  /\ hnd.pc = "idle"
  /\ users' = [users EXCEPT ![u] = IF @ = "absent" THEN @ ELSE "onboarded"]
  /\ UNCHANGED <<subs, articles, sent, last_checked, feed, delivered, sched, sync, hnd, runs, callers, notif,
                 needs_scraping, abstracts, scraped, escaped, syncs,
                 feed_content, parsed, dispatch, exported>>

\* What a call of subscribe_user_to_journal raises: ValueError for a telegram id
\* without a users row (repository.py line 164), nothing otherwise.
subscribe_raises(u) == IF users[u] = "absent" THEN {"ValueError"} ELSE {}

\* JournalsHandler.handle_journal_callback lines 219-245: the button carries
\* is_subscribed, the state of the pair when the keyboard was rendered (a button
\* with is_subscribed = 1 is rendered from an active row, lines 190-203), and the
\* handler unsubscribes or subscribes by that flag.  The repository call is made for
\* query.from_user.id whether or not the user exists, outside any try: what
\* subscribe_user_to_journal raises leaves the handler.
JournalCallback(u, j, is_subscribed) ==
  /\ hnd.pc = "idle"
  /\ is_subscribed => SubRows(u, j) # <<>>
  /\ is_subscribed \/ SubRows(u, j) # <<>> \/ RowCount(subs, DOMAIN subs) < MaxSubs
  /\ subs' = IF is_subscribed THEN unsubscribe_user_from_journal(u, j)
             ELSE subscribe_user_to_journal(u, j)
  /\ escaped' = IF is_subscribed THEN escaped ELSE escaped \cup subscribe_raises(u)
  /\ hnd' = IF ~is_subscribed /\ subscribe_raises(u) # {} THEN hnd
            ELSE [NoHandler EXCEPT !.pc = "answer", !.kind = "journal", !.user = u,
                                   !.journal = j, !.was = ActiveSub(u, j),
                                   !.msg = IF is_subscribed THEN "unsubscribed"
                                           ELSE "subscribed"]
  /\ UNCHANGED <<users, articles, sent, last_checked, feed, delivered, sched, sync, runs, callers, notif,
                 needs_scraping, abstracts, scraped, syncs,
                 feed_content, parsed, dispatch, exported>>

\* handle_journal_callback lines 246-262: query.answer(msg), then the keyboard is
\* rendered again or the fetch prompt shown.
JournalAnswer ==
  /\ hnd.kind = "journal" /\ hnd.pc = "answer"
  /\ hnd' = NoHandler
  /\ UNCHANGED <<users, subs, articles, sent, last_checked, feed, delivered, sched, sync, runs, callers, notif,
                 needs_scraping, abstracts, scraped, escaped, syncs,
                 feed_content, parsed, dispatch, exported>>

\* The loop of a delivering handler over the first n items of its list moves to the
\* next item, or the handler ends.
Advance(h, pc) ==
  IF h.k < h.n
  THEN [h EXCEPT !.pc = pc, !.k = h.k + 1, !.article = 0, !.sendok = FALSE]
  ELSE NoHandler

SendResults == {"formatted", "plain", "failed"}

(* ------------------------------------------ articles.py: latest_command *)
\* latest_command lines 88-120: the guards, then the backlog query; the loop runs
\* over articles[:5].
LatestBegin(u, r) ==
  /\ hnd.pc = "idle"
  /\ r \in get_unsent_articles_for_user(u)
  /\ hnd' = IF users[u] # "onboarded" \/ get_user_subscriptions(u) = {} \/ r = <<>>
            THEN hnd
            ELSE [NoHandler EXCEPT !.pc = "tailor", !.kind = "latest", !.user = u,
                                   !.list = r, !.n = Min(Len(r), LatestBatch),
                                   !.k = 1]
  /\ UNCHANGED <<users, subs, articles, sent, last_checked, feed, delivered, sched, sync, runs, callers, notif,
                 needs_scraping, abstracts, scraped, escaped, syncs,
                 feed_content, parsed, dispatch, exported>>

\* A loop that ends at the first article whose tailoring fails.
BreakOnTailorFailure(h) == NoHandler

\* latest_command line 132, `if tailored:` false: nothing is sent or marked for the
\* article and the for loop goes on.
LatestSkip(h) == Advance(h, "tailor")

\* latest_command lines 126-132: tailor_article returns the text, or None on any error.
LatestTailor(ok) ==
  /\ hnd.kind = "latest" /\ hnd.pc = "tailor"
  /\ hnd' = IF ok THEN [hnd EXCEPT !.pc = "send", !.article = hnd.list[hnd.k]]
            ELSE LatestSkip(hnd)
  /\ UNCHANGED <<users, subs, articles, sent, last_checked, feed, delivered, sched, sync, runs, callers, notif,
                 needs_scraping, abstracts, scraped, escaped, syncs,
                 feed_content, parsed, dispatch, exported>>

\* ArticlesHandler._send_tailored_message: Markdown first, plain text if that is
\* rejected; a rejected retry is logged and not raised.
LatestSend(res) ==
  /\ hnd.kind = "latest" /\ hnd.pc = "send"
  /\ delivered' = IF res = "failed" THEN delivered ELSE Accept(hnd.user, hnd.article)
  /\ hnd' = [hnd EXCEPT !.pc = "mark", !.sendok = (res # "failed")]
  /\ UNCHANGED <<users, subs, articles, sent, last_checked, feed, sched, sync, runs, callers, notif,
                 needs_scraping, abstracts, scraped, escaped, syncs,
                 feed_content, parsed, dispatch, exported>>

\* latest_command lines 147-152: mark_article_sent.
LatestMark ==
  /\ hnd.kind = "latest" /\ hnd.pc = "mark"
  /\ sent' = mark_article_sent(hnd.user, hnd.article, "latest", hnd.sendok)
  /\ hnd' = Advance(hnd, "tailor")
  /\ UNCHANGED <<users, subs, articles, last_checked, feed, delivered, sched, sync, runs, callers, notif,
                 needs_scraping, abstracts, scraped, escaped, syncs,
                 feed_content, parsed, dispatch, exported>>

(* -------------------------------- journals.py: handle_fetch_callback *)
\* handle_fetch_callback lines 287-309: get_user (possibly None), get_journal_by_id.
FetchBegin(u, j) ==
  /\ hnd.pc = "idle"
  /\ hnd' = [NoHandler EXCEPT !.pc = "parse", !.kind = "fetch", !.user = u, !.journal = j]
  /\ UNCHANGED <<users, subs, articles, sent, last_checked, feed, delivered, sched, sync, runs, callers, notif,
                 needs_scraping, abstracts, scraped, escaped, syncs,
                 feed_content, parsed, dispatch, exported>>

\* handle_fetch_callback lines 314-322: the feed's first FetchBatch candidates.
FetchParse(ok) ==
  /\ hnd.kind = "fetch" /\ hnd.pc = "parse"
  /\ LET c == Take(parse_from_url(hnd.journal, ok), FetchBatch)
     IN hnd' = IF c = <<>> THEN NoHandler
               ELSE [hnd EXCEPT !.pc = "cand", !.list = c, !.n = Len(c), !.k = 1]
  /\ UNCHANGED <<users, subs, articles, sent, last_checked, feed, delivered, sched, sync, runs, callers, notif,
                 needs_scraping, abstracts, scraped, escaped, syncs,
                 feed_content, parsed, dispatch, exported>>

\* handle_fetch_callback lines 324-343: a stored link is looked up; for any other
\* link create_article is called with volume= and issue= and raises TypeError,
\* which the handler's outer except turns into its error message.
FetchCandidate ==
  /\ hnd.kind = "fetch" /\ hnd.pc = "cand"
  /\ hnd' = IF article_exists(hnd.list[hnd.k])
            THEN [hnd EXCEPT !.pc = "check",
                             !.article = get_article_by_link(hnd.list[hnd.k])]
            ELSE NoHandler
  /\ scraped' = IF article_exists(hnd.list[hnd.k]) THEN scraped
                ELSE scrape_abstract(hnd.journal, hnd.list[hnd.k])
  /\ UNCHANGED <<users, subs, articles, sent, last_checked, feed, delivered, sched, sync, runs, callers, notif,
                 needs_scraping, abstracts, escaped, syncs,
                 feed_content, parsed, dispatch, exported>>

\* handle_fetch_callback lines 345-348: user.telegram_id fails for user = None;
\* a sent article is skipped.
FetchCheck ==
  /\ hnd.kind = "fetch" /\ hnd.pc = "check"
  /\ hnd' = IF users[hnd.user] = "absent" THEN NoHandler
            ELSE CASE was_article_sent_to_user(hnd.user, hnd.article) = "yes"
                        -> Advance(hnd, "cand")
                   [] was_article_sent_to_user(hnd.user, hnd.article) = "raise"
                        -> NoHandler
                   [] OTHER -> [hnd EXCEPT !.pc = "tailor"]
  /\ UNCHANGED <<users, subs, articles, sent, last_checked, feed, delivered, sched, sync, runs, callers, notif,
                 needs_scraping, abstracts, scraped, escaped, syncs,
                 feed_content, parsed, dispatch, exported>>

\* handle_fetch_callback lines 351-357.
FetchTailor(ok) ==
  /\ hnd.kind = "fetch" /\ hnd.pc = "tailor"
  /\ hnd' = IF ok THEN [hnd EXCEPT !.pc = "send"] ELSE Advance(hnd, "cand")
  /\ UNCHANGED <<users, subs, articles, sent, last_checked, feed, delivered, sched, sync, runs, callers, notif,
                 needs_scraping, abstracts, scraped, escaped, syncs,
                 feed_content, parsed, dispatch, exported>>

\* handle_fetch_callback lines 370-384: Markdown first, plain text if that is
\* rejected; a rejected retry raises into the handler's outer except.
FetchSend(res) ==
  /\ hnd.kind = "fetch" /\ hnd.pc = "send"
  /\ delivered' = IF res = "failed" THEN delivered ELSE Accept(hnd.user, hnd.article)
  /\ hnd' = IF res = "failed" THEN NoHandler
            ELSE [hnd EXCEPT !.pc = "mark", !.sendok = TRUE]
  /\ UNCHANGED <<users, subs, articles, sent, last_checked, feed, sched, sync, runs, callers, notif,
                 needs_scraping, abstracts, scraped, escaped, syncs,
                 feed_content, parsed, dispatch, exported>>

\* handle_fetch_callback lines 386-391.
FetchMark ==
  /\ hnd.kind = "fetch" /\ hnd.pc = "mark"
  /\ sent' = mark_article_sent(hnd.user, hnd.article, "fetch", hnd.sendok)
  /\ hnd' = Advance(hnd, "cand")
  /\ UNCHANGED <<users, subs, articles, last_checked, feed, delivered, sched, sync, runs, callers, notif,
                 needs_scraping, abstracts, scraped, escaped, syncs,
                 feed_content, parsed, dispatch, exported>>

(* ------------------------------------ repository.py: create_article *)
\* The store without the unique constraints on articles.
NoUniqueConstraint(link) == FALSE

\* models.py: Article.link and Article.link_hash are declared unique=True, so an
\* INSERT of a row that repeats either is refused by the store.
UniqueViolation(link) ==
  \E i \in ArticleIds : articles[i].link = link \/ articles[i].link_hash = hash_link(link)

\* The newest fetched_at in the table.
MaxFetched ==
  IF ArticleIds = {} THEN 0
  ELSE CHOOSE t \in {articles[i].fetched_at : i \in ArticleIds} :
         \A i \in ArticleIds : articles[i].fetched_at <= t

\* create_article lines 247-255, called with the parameters it accepts: the SELECT
\* by link_hash; a row found returns None.
CreateSelect(c, l) ==
  /\ callers[c].pc = "idle"
  /\ callers' = [callers EXCEPT ![c] =
                   IF article_exists(l)
                   THEN [pc |-> "done", journal |-> JournalOf(l), link |-> l,
                         result |-> "exists"]
                   ELSE [pc |-> "insert", journal |-> JournalOf(l), link |-> l,
                         result |-> "none"]]
  /\ UNCHANGED <<users, subs, articles, sent, last_checked, feed, delivered, sched, sync,
                 hnd, runs, notif,
                 needs_scraping, abstracts, scraped, escaped, syncs,
                 feed_content, parsed, dispatch, exported>>

\* create_article lines 257-270: session.add and commit.  The commit of a row whose
\* link is stored by now raises IntegrityError out of create_article; fetched_at is
\* the store's now().
CreateCommit(c, t) ==
  /\ callers[c].pc = "insert"
  /\ t \in {MaxFetched, MaxFetched + 1}
  /\ IF UniqueViolation(callers[c].link)
     THEN /\ articles' = articles
          /\ callers' = [callers EXCEPT ![c].pc = "done", ![c].result = "IntegrityError"]
     ELSE /\ articles' = Append(articles,
                           [journal |-> callers[c].journal, link |-> callers[c].link,
                            link_hash |-> hash_link(callers[c].link), fetched_at |-> t])
          /\ callers' = [callers EXCEPT ![c].pc = "done", ![c].result = "created"]
  /\ UNCHANGED <<users, subs, sent, last_checked, feed, delivered, sched, sync, hnd, runs, notif,
                 needs_scraping, abstracts, scraped, escaped, syncs,
                 feed_content, parsed, dispatch, exported>>

(* ------------------------------------ scheduler.py: notify_subscribers *)
\* The for loop of notify_subscribers moves to the next subscriber, or returns.
\* entry records what was done for the current subscriber.
NotifyNext(n, entry) ==
  IF n.k < Len(n.subscribers)
  THEN [n EXCEPT !.pc = "check", !.k = n.k + 1, !.sendok = FALSE,
                 !.log = Append(n.log, entry)]
  ELSE [n EXCEPT !.pc = "done", !.sendok = FALSE, !.log = Append(n.log, entry)]

\* notify_subscribers line 121, called for a stored article and its journal.
NotifyStart(a) ==
  /\ notif.pc \in {"idle", "done"}
  /\ a \in ArticleIds
  /\ LET subscribers == get_users_subscribed_to_journal(articles[a].journal)
     IN notif' = [NoNotify EXCEPT !.pc = IF subscribers = <<>> THEN "done" ELSE "check",
                                  !.article = a, !.journal = articles[a].journal,
                                  !.subscribers = subscribers,
                                  !.k = IF subscribers = <<>> THEN 0 ELSE 1]
  /\ UNCHANGED <<users, subs, articles, sent, last_checked, feed, delivered, sched, sync,
                 hnd, runs, callers,
                 needs_scraping, abstracts, scraped, escaped, syncs,
                 feed_content, parsed, dispatch, exported>>

\* notify_subscribers lines 125-127: a sent article is skipped; an error of the
\* check is caught per user.
NotifyCheck ==
  /\ notif.pc = "check"
  /\ LET r == was_article_sent_to_user(notif.subscribers[notif.k], notif.article)
     IN notif' = CASE r = "yes" -> NotifyNext(notif, "already_sent")
                   [] r = "raise" -> NotifyNext(notif, "raised")
                   [] OTHER -> [notif EXCEPT !.pc = "tailor"]
  /\ UNCHANGED <<users, subs, articles, sent, last_checked, feed, delivered, sched, sync,
                 hnd, runs, callers,
                 needs_scraping, abstracts, scraped, escaped, syncs,
                 feed_content, parsed, dispatch, exported>>

\* A loop that stops at the first subscriber whose tailoring fails.
AbortOnTailorFailure(n) == [n EXCEPT !.pc = "done", !.log = Append(n.log, "tailor_failed")]

\* What notify_subscribers does when tailor_article returned None (line 136).
AfterTailorFailure(n) == NotifyNext(n, "tailor_failed")

\* notify_subscribers lines 130-136: tailor_article returns the text, or None.
NotifyTailor(ok) ==
  /\ notif.pc = "tailor"
  /\ notif' = IF ok THEN [notif EXCEPT !.pc = "send"] ELSE AfterTailorFailure(notif)
  /\ UNCHANGED <<users, subs, articles, sent, last_checked, feed, delivered, sched, sync,
                 hnd, runs, callers,
                 needs_scraping, abstracts, scraped, escaped, syncs,
                 feed_content, parsed, dispatch, exported>>

\* main.py send_message_callback: Markdown first, plain text if that is rejected;
\* a rejected retry is logged and not raised.
NotifySend(res) ==
  /\ notif.pc = "send"
  /\ delivered' = IF res = "failed" THEN delivered
                  ELSE Accept(notif.subscribers[notif.k], notif.article)
  /\ notif' = [notif EXCEPT !.pc = "mark", !.sendok = (res # "failed")]
  /\ UNCHANGED <<users, subs, articles, sent, last_checked, feed, sched, sync, hnd, runs, callers,
                 needs_scraping, abstracts, scraped, escaped, syncs,
                 feed_content, parsed, dispatch, exported>>

\* notify_subscribers lines 152-157: mark_article_sent.
NotifyMark ==
  /\ notif.pc = "mark"
  /\ sent' = mark_article_sent(notif.subscribers[notif.k], notif.article, "notify",
                               notif.sendok)
  /\ notif' = NotifyNext(notif, "marked")
  /\ UNCHANGED <<users, subs, articles, last_checked, feed, delivered, sched, sync, hnd,
                 runs, callers,
                 needs_scraping, abstracts, scraped, escaped, syncs,
                 feed_content, parsed, dispatch, exported>>

(* ------------- scheduler.py: check_journal_feed with an accepting store *)
\* notify_subscribers line 121 for the article a: the subscribers are read once.
Notifying(a) ==
  LET subscribers == get_users_subscribed_to_journal(articles'[a].journal)
  IN [NoNotify EXCEPT !.pc = IF subscribers = <<>> THEN "done" ELSE "check",
                      !.article = a, !.journal = articles'[a].journal,
                      !.subscribers = subscribers,
                      !.k = IF subscribers = <<>> THEN 0 ELSE 1]

\* The loop of check_journal_feed moves to the candidate after k, or to the stamp.
NextCandidate(p) ==
  IF p.k < Len(p.cands) THEN [p EXCEPT !.pc = "cand", !.k = p.k + 1]
  ELSE [p EXCEPT !.pc = "update"]

\* A check that starts notify_subscribers as a task and goes on with its loop.
NotifyInBackground(p) == NextCandidate([p EXCEPT !.new_count = p.new_count + 1])

\* check_journal_feed lines 109-112: the article created is counted and the check
\* awaits notify_subscribers for it.
AfterCreate(p) == [p EXCEPT !.pc = "notify", !.new_count = p.new_count + 1]

\* check_journal_feed lines 85-112 for one candidate, as it is written to run:
\* create_article called with the parameters it accepts stores the link that is
\* not stored, and notify_subscribers is called for the new article.
CheckCandidate(t) ==
  /\ sched.pc = "cand"
  /\ t \in {MaxFetched, MaxFetched + 1}
  /\ LET l == sched.cands[sched.k]
     IN IF article_exists(l)
        THEN /\ sched' = NextCandidate(sched)
             /\ articles' = articles
             /\ notif' = notif
        ELSE /\ articles' = Append(articles,
                               [journal |-> sched.j, link |-> l,
                                link_hash |-> hash_link(l), fetched_at |-> t])
             /\ notif' = Notifying(Len(articles) + 1)
             /\ sched' = AfterCreate(sched)
  /\ UNCHANGED <<users, subs, sent, last_checked, feed, delivered, sync, hnd, runs, callers,
                 needs_scraping, abstracts, scraped, escaped, syncs,
                 feed_content, parsed, dispatch, exported>>

\* check_journal_feed line 112: notify_subscribers has returned.
CheckNotified ==
  /\ sched.pc = "notify"
  /\ notif.pc = "done"
  /\ sched' = NextCandidate(sched)
  /\ UNCHANGED <<users, subs, articles, sent, last_checked, feed, delivered, sync, hnd, runs, callers,
                 notif, needs_scraping, abstracts, scraped, escaped, syncs,
                 feed_content, parsed, dispatch, exported>>

(* ------------------ the dispatch of a tailored message, attempt by attempt *)
\* tailor_article's text for the pair, as tailored by the site that dispatches it.
Tailored(site, u, a) == <<"tailored", site, u, a>>

\* utils/formatting.py markdown_to_telegram: standard Markdown rewritten for Telegram.
markdown_to_telegram(text) == <<"telegram", text>>

\* The three places that dispatch: send_message_callback (main.py, for
\* notify_subscribers), _send_tailored_message (/latest), handle_fetch_callback.
Sites == {"notify", "latest", "fetch"}

\* A site starts the dispatch of the text it tailored for the pair; here for pairs
\* the channel holds no message of.
DispatchBegin(site, u, a) ==
  /\ dispatch.pc \in {"idle", "returned", "raised"}
  /\ a \in ArticleIds
  /\ users[u] # "absent"
  /\ Delivered(u, a) = 0
  /\ dispatch' = [pc |-> "first", site |-> site, user |-> u, article |-> a,
                  text |-> markdown_to_telegram(Tailored(site, u, a)),
                  attempts |-> <<>>]
  /\ UNCHANGED <<users, subs, articles, sent, last_checked, feed, delivered, sched, sync, hnd, runs, callers,
                 notif, needs_scraping, abstracts, scraped, escaped, syncs,
                 feed_content, parsed, exported>>

\* A dispatch that sends the plain text whatever became of the first attempt.
RetryAlways(ok) == "retry"

\* The try of the three sites: the except branch is entered only when the send
\* with parse_mode="Markdown" raised.
AfterFirstAttempt(ok) == IF ok THEN "returned" ELSE "retry"

\* The send with parse_mode="Markdown" (main.py 90-96, articles.py 68-73,
\* journals.py 371-376); the channel accepts it or raises.
AttemptMarkdown(ok) ==
  /\ dispatch.pc = "first"
  /\ dispatch' = [dispatch EXCEPT
                    !.pc = AfterFirstAttempt(ok),
                    !.attempts = Append(@, [parse_mode |-> "Markdown",
                                            text |-> dispatch.text, accepted |-> ok])]
  /\ delivered' = IF ok THEN Accept(dispatch.user, dispatch.article) ELSE delivered
  /\ UNCHANGED <<users, subs, articles, sent, last_checked, feed, sched, sync, hnd, runs, callers,
                 notif, needs_scraping, abstracts, scraped, escaped, syncs,
                 feed_content, parsed, exported>>

\* The send with parse_mode=None in the except branch (main.py 100-106, articles.py
\* 77-82, journals.py 379-384): what it raises is logged, or leaves
\* handle_fetch_callback's try.
AttemptPlain(ok) ==
  /\ dispatch.pc = "retry"
  /\ dispatch' = [dispatch EXCEPT
                    !.pc = IF ~ok /\ dispatch.site = "fetch" THEN "raised" ELSE "returned",
                    !.attempts = Append(@, [parse_mode |-> "None",
                                            text |-> dispatch.text, accepted |-> ok])]
  /\ delivered' = IF ok THEN Accept(dispatch.user, dispatch.article) ELSE delivered
  /\ UNCHANGED <<users, subs, articles, sent, last_checked, feed, sched, sync, hnd, runs, callers,
                 notif, needs_scraping, abstracts, scraped, escaped, syncs,
                 feed_content, parsed, exported>>

(* ------------------------------------- export.py: handle_export_callback *)
\* The tailored_content column of a row: the three callers of mark_article_sent
\* pass the text they tailored (scheduler.py 156, articles.py 151, journals.py 389).
tailored_content(u, a, row) == Tailored(row.via, u, a)

NoRecord == [found |-> FALSE, tailored_content |-> <<>>]

\* A lookup that returns the oldest row of the pair.
OldestSentArticle(u, a) ==
  IF users[u] = "absent" \/ SentRows(u, a) = <<>> THEN NoRecord
  ELSE [found |-> TRUE, tailored_content |-> tailored_content(u, a, SentRows(u, a)[1])]

\* Repository.get_sent_article: the pair's row with the latest sent_at (ORDER BY
\* sent_at DESC LIMIT 1), None without a row or for an unknown user.
get_sent_article(u, a) ==
  IF users[u] = "absent" \/ SentRows(u, a) = <<>> THEN NoRecord
  ELSE [found |-> TRUE,
        tailored_content |-> tailored_content(u, a, SentRows(u, a)[Len(SentRows(u, a))])]

\* The texts of the messages the channel has shown to u for a, each with export
\* buttons: those of the rows whose message was accepted, and the one
\* notify_subscribers has sent and not yet recorded.
Messages(u, a) ==
  {markdown_to_telegram(tailored_content(u, a, SentRows(u, a)[i])) :
     i \in {k \in DOMAIN SentRows(u, a) : SentRows(u, a)[k].dispatched}}
  \cup (IF /\ notif.pc = "mark" /\ notif.sendok
            /\ notif.subscribers[notif.k] = u /\ notif.article = a
         THEN {markdown_to_telegram(Tailored("notify", u, a))} ELSE {})

\* handle_export_callback lines 41-60 for the button export:<format>:<a> under the
\* message m: the content of the record, or the text of the message when there is
\* no record (or no content in it).  Updates are handled one at a time.
ExportCallback(u, a, m) ==
  /\ hnd.pc = "idle"
  /\ m \in Messages(u, a)
  /\ LET sent_article == get_sent_article(u, a)
         content == IF sent_article.found THEN sent_article.tailored_content ELSE <<>>
     IN exported' = [user |-> u, article |-> a, message |-> m,
                     content |-> IF content = <<>> THEN m ELSE content,
                     source |-> IF content = <<>> THEN "message" ELSE "record"]
  /\ hnd' = [NoHandler EXCEPT !.pc = "export", !.kind = "export", !.user = u,
                              !.article = a]
  /\ UNCHANGED <<users, subs, articles, sent, last_checked, feed, delivered, sched, sync, runs, callers,
                 notif, needs_scraping, abstracts, scraped, escaped, syncs,
                 feed_content, parsed, dispatch>>

\* handle_export_callback lines 62-72: _export_pdf or _export_markdown replies with
\* the document; an error is answered and logged.
ExportDocument ==
  /\ hnd.kind = "export" /\ hnd.pc = "export"
  /\ exported' = NotExported
  /\ hnd' = NoHandler
  /\ UNCHANGED <<users, subs, articles, sent, last_checked, feed, delivered, sched, sync, runs, callers,
                 notif, needs_scraping, abstracts, scraped, escaped, syncs,
                 feed_content, parsed, dispatch>>

(* ------------------------------------------------------- specifications *)
Next ==
  \/ Tick
  \/ \E ok \in BOOLEAN : SchedFetch(ok)
  \/ SchedCandidate
  \/ SchedUpdate
  \/ SyncStart
  \/ \E ok \in BOOLEAN : SyncFetch(ok)
  \/ SyncCandidate
  \/ SyncUpdate

Spec == Init /\ [][Next]_vars

\* The handlers.  The passes of Spec write last_checked only and read the articles
\* and the feeds, which no handler writes: the handlers are checked on their own.
NextBot ==
  \/ \E u \in Users : StartCommand(u)
  \/ \E u \in Users : CompleteOnboarding(u)
  \/ \E u \in Users, j \in Journals, b \in BOOLEAN : JournalCallback(u, j, b)
  \/ JournalAnswer
  \/ \E u \in Users : \E r \in get_unsent_articles_for_user(u) : LatestBegin(u, r)
  \/ \E ok \in BOOLEAN : LatestTailor(ok)
  \/ \E res \in SendResults : LatestSend(res)
  \/ LatestMark
  \/ \E u \in Users, j \in Journals : FetchBegin(u, j)
  \/ \E ok \in BOOLEAN : FetchParse(ok)
  \/ FetchCandidate
  \/ FetchCheck
  \/ \E ok \in BOOLEAN : FetchTailor(ok)
  \/ \E res \in SendResults : FetchSend(res)
  \/ FetchMark

\* Every feed serves all the links of its journal, oldest link first.
FullFeed == [j \in Journals |-> Take(SortedSeq({l \in Links : JournalOf(l) = j}), MaxFeed)]

InitBot == Init /\ feed = FullFeed

SpecBot == InitBot /\ [][NextBot]_vars

\* The passes over feeds that serve all the links of their journals.
SpecIngest == InitBot /\ [][Next]_vars

\* The passes for any flagging of the journals and any feed abstracts, one pass at
\* a time: either the silent sync runs and the scheduled passes are over, or the
\* silent sync is over and one scheduled pass is left.
InitEnrich ==
  /\ users = [u \in Users |-> "absent"]
  /\ subs = [p \in {} |-> <<>>]
  /\ \E n \in 0..NStored : articles = [i \in 1..n |-> StoredRow(i, FALSE)]
  /\ sent = [p \in {} |-> <<>>]
  /\ last_checked = [j \in Journals |-> 0]
  /\ feed = FullFeed
  /\ delivered = [p \in {} |-> 0]
  /\ \E silent \in BOOLEAN :
       /\ sched = [NoPass EXCEPT !.id = IF silent THEN MaxPasses ELSE MaxPasses - 1]
       /\ sync = IF silent THEN [NoPass EXCEPT !.pc = "start"] ELSE NoPass
  /\ hnd = NoHandler
  /\ runs = [j \in Journals |-> <<>>]
  /\ callers = [c \in 1..NCallers |-> NoCall]
  /\ notif = NoNotify
  /\ needs_scraping \in [Journals -> BOOLEAN]
  /\ abstracts \in [Links -> BOOLEAN]
  /\ scraped = {}
  /\ escaped = {}
  /\ syncs = [j \in Journals |-> <<>>]
  /\ feed_content = NoContent
  /\ parsed = NotParsed
  /\ dispatch = NoDispatch
  /\ exported = NotExported

SpecEnrich == InitEnrich /\ [][Next]_vars

\* The handlers that create users and change subscriptions.
NextSubs ==
  \/ \E u \in Users : StartCommand(u)
  \/ \E u \in Users : CompleteOnboarding(u)
  \/ \E u \in Users, j \in Journals, b \in BOOLEAN : JournalCallback(u, j, b)
  \/ JournalAnswer

SpecSubs == InitBot /\ [][NextSubs]_vars

\* Repository.create_article run as the callers of the ingestion path are written
\* against it: concurrent tasks that call it with the parameters it accepts.
NextStore ==
  \/ \E c \in 1..NCallers, l \in Links : CreateSelect(c, l)
  \/ \E c \in 1..NCallers, t \in 0..(NLinks + NStored) : CreateCommit(c, t)

SpecStore == InitBot /\ [][NextStore]_vars

\* FeedScheduler.notify_subscribers run as check_journal_feed is written to run it,
\* as a task for a stored article, beside the delivering handlers.  The users and
\* their subscriptions are any that the handlers of SpecBot leave behind.
InitDeliver ==
  /\ users \in [Users -> {"new", "onboarded"}]
  /\ \E P \in SUBSET (Users \X {1}) : subs = [p \in P |-> <<TRUE>>]
  /\ \E n \in 0..NStored, tie \in BOOLEAN :
       articles = [i \in 1..n |-> StoredRow(i, tie)]
  /\ sent = [p \in {} |-> <<>>]
  /\ last_checked = [j \in Journals |-> 0]
  /\ feed = FullFeed
  /\ delivered = [p \in {} |-> 0]
  /\ sched = NoPass
  /\ sync = [NoPass EXCEPT !.pc = "start"]
  /\ hnd = NoHandler
  /\ runs = [j \in Journals |-> <<>>]
  /\ callers = [c \in 1..NCallers |-> NoCall]
  /\ notif = NoNotify
  /\ needs_scraping = [j \in Journals |-> j = 1]
  /\ abstracts = [l \in Links |-> l # 1]
  /\ scraped = {}
  /\ escaped = {}
  /\ syncs = [j \in Journals |-> <<>>]
  /\ feed_content = NoContent
  /\ parsed = NotParsed
  /\ dispatch = NoDispatch
  /\ exported = NotExported

\* Subscription changes and /latest while an article is being stored by a call of
\* create_article with the parameters it accepts.
NextResub ==
  \/ \E u \in Users, j \in Journals, b \in BOOLEAN : JournalCallback(u, j, b)
  \/ JournalAnswer
  \/ \E u \in Users : \E r \in get_unsent_articles_for_user(u) : LatestBegin(u, r)
  \/ LatestTailor(TRUE)
  \/ LatestSend("formatted")
  \/ LatestMark
  \/ \E l \in Links : CreateSelect(1, l)
  \/ \E t \in 0..(NLinks + NStored) : CreateCommit(1, t)

\* One onboarded user, subscribed to journal 1, and a catalogue of stored articles.
InitResub ==
  /\ users = [u \in Users |-> IF u = 1 THEN "onboarded" ELSE "absent"]
  /\ subs = [p \in {<<1, 1>>} |-> <<TRUE>>]
  /\ \E n \in 0..NStored, tie \in BOOLEAN :
       articles = [i \in 1..n |-> StoredRow(i, tie)]
  /\ sent = [p \in {} |-> <<>>]
  /\ last_checked = [j \in Journals |-> 0]
  /\ feed = FullFeed
  /\ delivered = [p \in {} |-> 0]
  /\ sched = NoPass
  /\ sync = NoPass
  /\ hnd = NoHandler
  /\ runs = [j \in Journals |-> <<>>]
  /\ callers = [c \in 1..NCallers |-> NoCall]
  /\ notif = NoNotify
  /\ needs_scraping = [j \in Journals |-> j = 1]
  /\ abstracts = [l \in Links |-> l # 1]
  /\ scraped = {}
  /\ escaped = {}
  /\ syncs = [j \in Journals |-> <<>>]
  /\ feed_content = NoContent
  /\ parsed = NotParsed
  /\ dispatch = NoDispatch
  /\ exported = NotExported

SpecResub == InitResub /\ [][NextResub]_vars

\* An entry with a title and the link l, and none of the optional fields.
BaseEntry(l) ==
  [title |-> Key(<<[kind |-> "text", n |-> 10]>>), link |-> l, links |-> <<>>,
   summary |-> NoKey, description |-> NoKey, content |-> NoKey,
   authors |-> [has |-> FALSE, v |-> <<>>], author |-> [has |-> FALSE, v |-> ""],
   dc_creator |-> [has |-> FALSE, v |-> <<>>]]

LongText == <<[kind |-> "text", n |-> 50]>>

\* Entries for the link l that carry the text t as summary, as description, as the
\* first content block, or as summary beside a long description; and one without.
AbstractEntries(l) ==
  {BaseEntry(l)} \cup
  UNION {{[BaseEntry(l) EXCEPT !.summary = Key(t)],
          [BaseEntry(l) EXCEPT !.description = Key(t)],
          [BaseEntry(l) EXCEPT !.content = Key(<<[value |-> Key(t)]>>)],
          [BaseEntry(l) EXCEPT !.summary = Key(t), !.description = Key(LongText)]}
         : t \in SeqsUpTo(Segs, MaxSegs)}

\* One scheduled pass over feeds in which the entry of link 1 carries any abstract
\* text; the abstract of a candidate is what _extract_abstract made of its entry.
InitAbstract ==
  /\ users = [u \in Users |-> "absent"]
  /\ subs = [p \in {} |-> <<>>]
  /\ \E stored \in BOOLEAN :
       articles = IF stored THEN <<StoredRow(1, FALSE)>> ELSE <<>>
  /\ sent = [p \in {} |-> <<>>]
  /\ last_checked = [j \in Journals |-> 0]
  /\ feed = FullFeed
  /\ delivered = [p \in {} |-> 0]
  /\ sched = [NoPass EXCEPT !.id = MaxPasses - 1]
  /\ sync = NoPass
  /\ hnd = NoHandler
  /\ runs = [j \in Journals |-> <<>>]
  /\ callers = [c \in 1..NCallers |-> NoCall]
  /\ notif = NoNotify
  /\ \E flagged \in BOOLEAN : needs_scraping = [j \in Journals |-> j = 1 /\ flagged]
  /\ \E e \in AbstractEntries(1) :
       /\ feed_content = [empty |-> FALSE, bozo |-> FALSE, entries |-> <<e>>]
       /\ abstracts = [l \in Links |-> l # 1 \/ ~Falsy(_extract_abstract(e))]
  /\ scraped = {}
  /\ escaped = {}
  /\ syncs = [j \in Journals |-> <<>>]
  /\ parsed = NotParsed
  /\ dispatch = NoDispatch
  /\ exported = NotExported

NextAbstract ==
  \/ ParseFeed
  \/ Tick
  \/ \E ok \in BOOLEAN : SchedFetch(ok)
  \/ SchedCandidate
  \/ SchedUpdate

SpecAbstract == InitAbstract /\ [][NextAbstract]_vars

\* Entries for the link l: well formed; without a title; with a title of tags
\* only; with the link among the alternates only; without any link; with
\* alternates that carry no href; and one whose dc_creator is not a str.
ParseEntryKinds(l) ==
  {BaseEntry(l),
   [BaseEntry(l) EXCEPT !.title = NoKey],
   [BaseEntry(l) EXCEPT !.title = Key(<<[kind |-> "tag", n |-> 3],
                                        [kind |-> "space", n |-> 1]>>)],
   [BaseEntry(l) EXCEPT !.link = 0,
                        !.links = <<[dict |-> FALSE, href |-> l + 1],
                                    [dict |-> TRUE, href |-> 0],
                                    [dict |-> TRUE, href |-> l]>>],
   [BaseEntry(l) EXCEPT !.link = 0],
   [BaseEntry(l) EXCEPT !.link = 0,
                        !.links = <<[dict |-> TRUE, href |-> 0],
                                    [dict |-> FALSE, href |-> l]>>],
   [BaseEntry(l) EXCEPT !.dc_creator = [has |-> TRUE, v |-> <<NonStr>>]]}

\* Contents of up to MaxEntries such entries, parsed with or without bozo set.
ParseContents ==
  {NoContent} \cup
  [empty : {FALSE}, bozo : BOOLEAN,
   entries : SeqsUpTo(ParseEntryKinds(1) \cup ParseEntryKinds(2), MaxEntries)]

\* Contents of one entry with any of the three author sources.
AuthorContents ==
  {[empty |-> FALSE, bozo |-> FALSE,
    entries |-> <<[BaseEntry(1) EXCEPT !.authors = a, !.author = b, !.dc_creator = c]>>] :
     a \in {[has |-> FALSE, v |-> <<>>]}
             \cup [has : {TRUE}, v : SeqsUpTo([name : {"A", "B", ""}], 2)],
     b \in {[has |-> FALSE, v |-> ""]} \cup [has : {TRUE}, v : {"A", "C", "", NonStr}],
     c \in {[has |-> FALSE, v |-> <<>>]}
             \cup [has : {TRUE}, v : {<<"D">>, <<"D", "E">>, <<>>, <<NonStr>>}]}

\* _parse_feed_content applied to a content.
InitParse ==
  /\ users = [u \in Users |-> "absent"]
  /\ subs = [p \in {} |-> <<>>]
  /\ articles = <<>>
  /\ sent = [p \in {} |-> <<>>]
  /\ last_checked = [j \in Journals |-> 0]
  /\ feed = FullFeed
  /\ delivered = [p \in {} |-> 0]
  /\ sched = NoPass
  /\ sync = NoPass
  /\ hnd = NoHandler
  /\ runs = [j \in Journals |-> <<>>]
  /\ callers = [c \in 1..NCallers |-> NoCall]
  /\ notif = NoNotify
  /\ needs_scraping = [j \in Journals |-> j = 1]
  /\ abstracts = [l \in Links |-> l # 1]
  /\ scraped = {}
  /\ escaped = {}
  /\ syncs = [j \in Journals |-> <<>>]
  /\ feed_content \in ParseContents \cup AuthorContents
  /\ parsed = NotParsed
  /\ dispatch = NoDispatch
  /\ exported = NotExported

SpecParse == InitParse /\ [][ParseFeed]_vars

\* One scheduled pass of check_journal_feed as it is written to run, with the
\* notify_subscribers it awaits; every user is subscribed to journal 1.
NextOrder ==
  \/ Tick
  \/ \E ok \in BOOLEAN : SchedFetch(ok)
  \/ \E t \in 0..(NLinks + NStored) : CheckCandidate(t)
  \/ CheckNotified
  \/ SchedUpdate
  \/ NotifyCheck
  \/ \E ok \in BOOLEAN : NotifyTailor(ok)
  \/ \E res \in SendResults : NotifySend(res)
  \/ NotifyMark

InitOrder ==
  /\ users \in [Users -> {"new", "onboarded"}]
  /\ subs = [p \in Users \X {1} |-> <<TRUE>>]
  /\ \E n \in 0..NStored : articles = [i \in 1..n |-> StoredRow(i + 1, FALSE)]
  /\ sent = [p \in {} |-> <<>>]
  /\ last_checked = [j \in Journals |-> 0]
  /\ feed = FullFeed
  /\ delivered = [p \in {} |-> 0]
  /\ sched = [NoPass EXCEPT !.id = MaxPasses - 1]
  /\ sync = NoPass
  /\ hnd = NoHandler
  /\ runs = [j \in Journals |-> <<>>]
  /\ callers = [c \in 1..NCallers |-> NoCall]
  /\ notif = NoNotify
  /\ needs_scraping = [j \in Journals |-> j = 1]
  /\ abstracts = [l \in Links |-> l # 1]
  /\ scraped = {}
  /\ escaped = {}
  /\ syncs = [j \in Journals |-> <<>>]
  /\ feed_content = NoContent
  /\ parsed = NotParsed
  /\ dispatch = NoDispatch
  /\ exported = NotExported

SpecOrder == InitOrder /\ [][NextOrder]_vars

\* The dispatches of the three sites.
NextSend ==
  \/ \E site \in Sites, u \in Users, a \in 1..NStored : DispatchBegin(site, u, a)
  \/ \E ok \in BOOLEAN : AttemptMarkdown(ok)
  \/ \E ok \in BOOLEAN : AttemptPlain(ok)

\* Known users and a catalogue of stored articles; nothing sent yet.
InitSend ==
  /\ users \in [Users -> {"new", "onboarded"}]
  /\ subs = [p \in {} |-> <<>>]
  /\ articles = [i \in 1..NStored |-> StoredRow(i, FALSE)]
  /\ sent = [p \in {} |-> <<>>]
  /\ last_checked = [j \in Journals |-> 0]
  /\ feed = FullFeed
  /\ delivered = [p \in {} |-> 0]
  /\ sched = NoPass
  /\ sync = NoPass
  /\ hnd = NoHandler
  /\ runs = [j \in Journals |-> <<>>]
  /\ callers = [c \in 1..NCallers |-> NoCall]
  /\ notif = NoNotify
  /\ needs_scraping = [j \in Journals |-> j = 1]
  /\ abstracts = [l \in Links |-> l # 1]
  /\ scraped = {}
  /\ escaped = {}
  /\ syncs = [j \in Journals |-> <<>>]
  /\ feed_content = NoContent
  /\ parsed = NotParsed
  /\ dispatch = NoDispatch
  /\ exported = NotExported

SpecSend == InitSend /\ [][NextSend]_vars

NextDeliver ==
  \/ \E a \in 1..NStored : NotifyStart(a)
  \/ NotifyCheck
  \/ \E ok \in BOOLEAN : NotifyTailor(ok)
  \/ \E res \in SendResults : NotifySend(res)
  \/ NotifyMark
  \/ \E u \in Users : \E r \in get_unsent_articles_for_user(u) : LatestBegin(u, r)
  \/ \E ok \in BOOLEAN : LatestTailor(ok)
  \/ \E res \in SendResults : LatestSend(res)
  \/ LatestMark
  \/ \E u \in Users, j \in Journals : FetchBegin(u, j)
  \/ \E ok \in BOOLEAN : FetchParse(ok)
  \/ FetchCandidate
  \/ FetchCheck
  \/ \E ok \in BOOLEAN : FetchTailor(ok)
  \/ \E res \in SendResults : FetchSend(res)
  \/ FetchMark

SpecDeliver == InitDeliver /\ [][NextDeliver]_vars

\* notify_subscribers beside /latest alone.
NextNotify ==
  \/ \E a \in 1..NStored : NotifyStart(a)
  \/ NotifyCheck
  \/ \E ok \in BOOLEAN : NotifyTailor(ok)
  \/ \E res \in SendResults : NotifySend(res)
  \/ NotifyMark
  \/ \E u \in Users : \E r \in get_unsent_articles_for_user(u) : LatestBegin(u, r)
  \/ \E ok \in BOOLEAN : LatestTailor(ok)
  \/ \E res \in SendResults : LatestSend(res)
  \/ LatestMark

SpecNotify == InitDeliver /\ [][NextNotify]_vars

\* Export buttons pressed while notify_subscribers and /latest deliver.
NextExport ==
  \/ \E a \in 1..NStored : NotifyStart(a)
  \/ NotifyCheck
  \/ \E ok \in BOOLEAN : NotifyTailor(ok)
  \/ \E res \in SendResults : NotifySend(res)
  \/ NotifyMark
  \/ \E u \in Users : \E r \in get_unsent_articles_for_user(u) : LatestBegin(u, r)
  \/ \E ok \in BOOLEAN : LatestTailor(ok)
  \/ \E res \in SendResults : LatestSend(res)
  \/ LatestMark
  \/ \E u \in Users, a \in 1..NStored : \E m \in Messages(u, a) : ExportCallback(u, a, m)
  \/ ExportDocument

SpecExport == InitDeliver /\ [][NextExport]_vars

\* notify_subscribers for the stored articles of journal 1 while its subscribers
\* press the journal's button.
NextUnsub ==
  \/ \E a \in 1..NStored : NotifyStart(a)
  \/ NotifyCheck
  \/ \E ok \in BOOLEAN : NotifyTailor(ok)
  \/ \E res \in SendResults : NotifySend(res)
  \/ NotifyMark
  \/ \E u \in Users, b \in BOOLEAN : JournalCallback(u, 1, b)
  \/ JournalAnswer

SpecUnsub == InitDeliver /\ [][NextUnsub]_vars

\* /latest over a catalogue larger than the LIMIT of the backlog query.  Rows of
\* the catalogue as earlier ingestion left them: every fifth article belongs to
\* journal 2, the others to journal 1, and with tie the two articles around the
\* LIMIT were stored with one fetched_at.  The failures of tailoring and sending
\* are the subject of SpecBot; here every message is tailored and accepted.
TieAt == BacklogSize - UnsentLimit

BacklogRow(i, tie) ==
  [journal |-> IF i % 5 = 0 THEN 2 ELSE 1, link |-> i, link_hash |-> hash_link(i),
   fetched_at |-> IF tie /\ i = TieAt + 1 THEN TieAt ELSE i]

InitBacklog ==
  /\ users = [u \in Users |-> IF u = 1 THEN "onboarded" ELSE "new"]
  /\ subs = [p \in {<<1, 1>>, <<1, 2>>} |-> <<TRUE>>]
  /\ \E tie \in BOOLEAN : articles = [i \in 1..BacklogSize |-> BacklogRow(i, tie)]
  /\ sent = [p \in {} |-> <<>>]
  /\ last_checked = [j \in Journals |-> 0]
  /\ feed = FullFeed
  /\ delivered = [p \in {} |-> 0]
  /\ sched = NoPass
  /\ sync = NoPass
  /\ hnd = NoHandler
  /\ runs = [j \in Journals |-> <<>>]
  /\ callers = [c \in 1..NCallers |-> NoCall]
  /\ notif = NoNotify
  /\ needs_scraping = [j \in Journals |-> j = 1]
  /\ abstracts = [l \in Links |-> l # 1]
  /\ scraped = {}
  /\ escaped = {}
  /\ syncs = [j \in Journals |-> <<>>]
  /\ feed_content = NoContent
  /\ parsed = NotParsed
  /\ dispatch = NoDispatch
  /\ exported = NotExported

NextBacklog ==
  \/ \E u \in Users, j \in Journals, b \in BOOLEAN : JournalCallback(u, j, b)
  \/ JournalAnswer
  \/ \E u \in Users : \E r \in get_unsent_articles_for_user(u) : LatestBegin(u, r)
  \/ LatestTailor(TRUE)
  \/ LatestSend("formatted")
  \/ LatestMark

SpecBacklog == InitBacklog /\ [][NextBacklog]_vars

\* /latest with tailoring and sending that can fail, over a catalogue of more
\* articles than one invocation handles.
InitLatest ==
  /\ users = [u \in Users |-> IF u = 1 THEN "onboarded" ELSE "new"]
  /\ subs = [p \in {<<1, 1>>, <<1, 2>>} |-> <<TRUE>>]
  /\ \E tie \in BOOLEAN : articles = [i \in 1..CatalogueSize |-> BacklogRow(i, tie)]
  /\ sent = [p \in {} |-> <<>>]
  /\ last_checked = [j \in Journals |-> 0]
  /\ feed = FullFeed
  /\ delivered = [p \in {} |-> 0]
  /\ sched = NoPass
  /\ sync = NoPass
  /\ hnd = NoHandler
  /\ runs = [j \in Journals |-> <<>>]
  /\ callers = [c \in 1..NCallers |-> NoCall]
  /\ notif = NoNotify
  /\ needs_scraping = [j \in Journals |-> j = 1]
  /\ abstracts = [l \in Links |-> l # 1]
  /\ scraped = {}
  /\ escaped = {}
  /\ syncs = [j \in Journals |-> <<>>]
  /\ feed_content = NoContent
  /\ parsed = NotParsed
  /\ dispatch = NoDispatch
  /\ exported = NotExported

NextLatest ==
  \/ \E u \in Users : \E r \in get_unsent_articles_for_user(u) : LatestBegin(u, r)
  \/ \E ok \in BOOLEAN : LatestTailor(ok)
  \/ \E res \in SendResults : LatestSend(res)
  \/ LatestMark

SpecLatest == InitLatest /\ [][NextLatest]_vars

\* The user sends /latest again and again, nothing else happens, and every message
\* is tailored and accepted.
NextDrain ==
  \/ \E u \in Users : \E r \in get_unsent_articles_for_user(u) : LatestBegin(u, r)
  \/ LatestTailor(TRUE)
  \/ LatestSend("formatted")
  \/ LatestMark

\* The user keeps sending /latest while there is a backlog, and the event loop
\* runs each step of a handler that is ready.
FairDrain ==
  /\ WF_vars(\E r \in get_unsent_articles_for_user(1) : LatestBegin(1, r))
  /\ WF_vars(LatestTailor(TRUE))
  /\ WF_vars(LatestSend("formatted"))
  /\ WF_vars(LatestMark)

SpecDrain == InitBacklog /\ [][NextDrain]_vars /\ FairDrain

(* --------------------------------------------------------- properties *)
\* C1: for every (user, article) pair there is at most one accepted dispatch and
\* at most one delivery record, under any interleaving of notify_subscribers,
\* /latest and the on-demand journal fetch.
AtMostOnceDelivery ==
  /\ \A p \in DOMAIN sent : Len(sent[p]) <= 1
  /\ \A p \in DOMAIN delivered : delivered[p] <= 1

\* C2: a delivery record written by the scheduled notify path or by /latest exists
\* only if the channel accepted a send of the message; when both attempts fail no
\* record is written.
MarkOnlyAfterDispatch ==
  \A p \in DOMAIN sent : \A i \in DOMAIN sent[p] :
    sent[p][i].via \in {"notify", "latest"} => sent[p][i].dispatched

\* C3: the store holds at most one article per link and per link hash.
ArticleUnique ==
  \A i \in ArticleIds : \A k \in ArticleIds :
    (articles[i].link = articles[k].link \/ articles[i].link_hash = articles[k].link_hash)
      => i = k

\* C3 witness: two create_article calls for one link both passed the SELECT, one
\* stored the article and the store refused the other.
RaceOnOneLink ==
  \E c \in 1..NCallers : \E d \in 1..NCallers :
    /\ callers[c].link = callers[d].link
    /\ callers[c].result = "created"
    /\ callers[d].result = "IntegrityError"
    /\ Cardinality({i \in ArticleIds : articles[i].link = callers[c].link}) = 1

\* C4: every finished create_article call either created the article or returned
\* None for "already exists"; the loser of a race does not fail with an error.
LoserSeesAlreadyExists ==
  \A c \in 1..NCallers :
    callers[c].pc = "done" => callers[c].result \in {"created", "exists"}

\* The links of the feed content s that are stored exactly once.
StoredOnce(s) ==
  \A l \in Range(s) : Cardinality({i \in ArticleIds : articles[i].link = l}) = 1

\* C5: after the feed-check path ran twice over the same fetched feed content, each
\* link of the feed is stored exactly once and the second run returned zero newly
\* created articles.
IdempotentIngestion ==
  \A j \in Journals :
    (/\ Len(runs[j]) >= 2
     /\ runs[j][1].fetch = "ok" /\ runs[j][2].fetch = "ok"
     /\ runs[j][1].feed = runs[j][2].feed)
    => /\ StoredOnce(runs[j][2].feed)
       /\ runs[j][2].outcome = "returned"
       /\ runs[j][2].new_count = 0

\* C6: in a pass over three journals in which only the fetch of the 2nd failed at
\* transport level, the 1st and the 3rd journal are stamped and the 2nd is not.
BatchIsolation ==
  \A p \in 1..MaxPasses :
    (/\ \A j \in 1..3 : Len(runs[j]) >= p
     /\ runs[1][p].fetch = "ok" /\ runs[2][p].fetch = "failed" /\ runs[3][p].fetch = "ok")
    => /\ runs[1][p].stamped
       /\ runs[3][p].stamped
       /\ ~runs[2][p].stamped

\* C7: every check of a journal whose feed was fetched ends with last_checked
\* updated, whether the feed held new links or only stored ones.
LastCheckedAlwaysUpdated ==
  \A j \in Journals : \A i \in DOMAIN runs[j] :
    runs[j][i].fetch = "ok" => runs[j][i].stamped

\* C8: nothing is dispatched to, and no delivery record is written for, a user whose
\* onboarding is not complete (onboarding_complete is never reset), and the
\* subscribers of a journal are the onboarded users with an active subscription.
OnboardedOnly ==
  /\ \A j \in Journals :
       Range(get_users_subscribed_to_journal(j))
         = {u \in Users : users[u] = "onboarded" /\ ActiveSub(u, j)}
  /\ \A p \in DOMAIN sent : sent[p] # <<>> => users[p[1]] = "onboarded"
  /\ \A p \in DOMAIN delivered : delivered[p] > 0 => users[p[1]] = "onboarded"

\* The latest_command has just run the backlog query.
JustQueried == hnd.kind = "latest" /\ hnd.pc = "tailor" /\ hnd.k = 1

\* Articles of journals the user has an active subscription row for, without a
\* delivery record for the user.
Eligible(u) ==
  {a \in ArticleIds :
     /\ \E i \in DOMAIN SubRows(u, articles[a].journal) : SubRows(u, articles[a].journal)[i]
     /\ ~\E p \in DOMAIN sent : p = <<u, a>> /\ sent[p] # <<>>}

\* C9: the backlog query returns only eligible articles, each once, newest fetched
\* first, 20 at most, and none it leaves out is newer than one it returns.
BacklogNewestFirstCapped ==
  JustQueried =>
    LET r == hnd.list
        E == Eligible(hnd.user)
    IN /\ Range(r) \subseteq E
       /\ \A i \in DOMAIN r : \A k \in DOMAIN r :
            i < k => /\ r[i] # r[k]
                     /\ articles[r[i]].fetched_at >= articles[r[k]].fetched_at
       /\ Len(r) = Min(Cardinality(E), 20)
       /\ \A a \in E \ Range(r) : \A i \in DOMAIN r :
            articles[a].fetched_at <= articles[r[i]].fetched_at

\* C9 witness: the query ran for a user with 25 eligible articles and returned 20.
BacklogOverCap ==
  /\ JustQueried
  /\ Cardinality(Eligible(hnd.user)) = 25
  /\ Len(hnd.list) = 20

\* C10: when notify_subscribers returns, every subscriber of its list was handled;
\* one whose tailoring failed got no record from it, and one it tailored for got
\* the message sent and the record written.
NotifyIsolation ==
  notif.pc = "done" =>
    /\ Len(notif.log) = Len(notif.subscribers)
    /\ \A k \in DOMAIN notif.log :
         LET rows == SentRows(notif.subscribers[k], notif.article)
         IN /\ notif.log[k] = "tailor_failed"
                 => \A i \in DOMAIN rows : rows[i].via # "notify"
            /\ notif.log[k] = "marked"
                 => \E i \in DOMAIN rows : rows[i].via = "notify"

\* C10 witness: a finished notify_subscribers in which tailoring failed for one
\* subscriber and a later subscriber was marked.
NotifyContinuedAfterFailure ==
  /\ notif.pc = "done"
  /\ \E k \in DOMAIN notif.log : \E m \in DOMAIN notif.log :
       k < m /\ notif.log[k] = "tailor_failed" /\ notif.log[m] = "marked"

\* C11: the silent sync stores every link of each feed it fetched, updates the
\* last_checked of each journal it processed, and leaves the delivery ledger and
\* the channel as they were.
SilentSyncIngests ==
  /\ \A j \in Journals : \A i \in DOMAIN syncs[j] :
       /\ syncs[j][i].stamped
       /\ syncs[j][i].fetch = "ok" => StoredOnce(syncs[j][i].feed)
  /\ \A p \in DOMAIN sent : sent[p] = <<>>
  /\ \A p \in DOMAIN delivered : delivered[p] = 0

\* C12: a step of the scheduled pass on a candidate whose link is stored creates
\* nothing, notifies nobody and counts nothing as new; the check of the journal
\* goes on.
StoredCandidateSkipped ==
  [][(/\ sched.pc = "cand"
      /\ sched' # sched
      /\ \E a \in ArticleIds : articles[a].link = sched.cands[sched.k])
     => /\ sent' = sent /\ delivered' = delivered /\ notif' = notif
        /\ articles' = articles /\ scraped' = scraped /\ runs' = runs
        /\ sched'.j = sched.j /\ sched'.new_count = sched.new_count]_vars

\* C12 witness: a check returned after it went through a feed of stored links.
ReturnedOverStoredFeed ==
  \E j \in Journals : \E i \in DOMAIN runs[j] :
    /\ runs[j][i].outcome = "returned"
    /\ runs[j][i].feed # <<>>
    /\ StoredOnce(runs[j][i].feed)
    /\ runs[j][i].new_count = 0

\* C13: scrape_abstract was called only for candidates of journals flagged
\* needs_scraping, whose feed entry carries no abstract and whose link is not stored.
ScrapeOnlyWhenNeeded ==
  \A c \in scraped :
    /\ needs_scraping[c.journal]
    /\ ~abstracts[c.link]
    /\ ~c.stored
    /\ ~\E a \in ArticleIds : articles[a].link = c.link

\* C13 witness: scrape_abstract was called for one candidate, and the check of a
\* flagged journal went through a candidate that is stored or carries an abstract
\* without a call for it.
ScrapedOneSkippedOther ==
  /\ scraped # {}
  /\ \E j \in Journals : \E i \in DOMAIN runs[j] : \E l \in Range(runs[j][i].feed) :
       /\ needs_scraping[j]
       /\ abstracts[l] \/ \E a \in ArticleIds : articles[a].link = l
       /\ ~\E c \in scraped : c.link = l

\* C14: after the check of a flagged journal whose fetched feed holds an entry
\* with an abstract and then an entry without one, both links are stored, each
\* once, and the check ended with the journal's last_checked updated.
EnrichmentScenario ==
  \A j \in Journals : \A i \in DOMAIN runs[j] :
    LET r == runs[j][i]
    IN (/\ needs_scraping[j]
        /\ r.fetch = "ok"
        /\ Len(r.feed) = 2
        /\ abstracts[r.feed[1]] /\ ~abstracts[r.feed[2]])
       => /\ StoredOnce(r.feed)
          /\ r.outcome = "returned"
          /\ r.stamped

\* C15: a (user, journal) pair never has more than one subscription row; a row,
\* once there, is never deleted and never joined by a second one: unsubscribing
\* and subscribing again change its is_active only.
SubscriptionUnique ==
  /\ [](\A p \in DOMAIN subs : Len(subs[p]) = 1)
  /\ [][\A p \in DOMAIN subs : p \in DOMAIN subs' /\ Len(subs'[p]) = Len(subs[p])]_vars

\* C15 witness: a user has been unsubscribed from one journal, whose row is kept
\* inactive, and holds an active row for another.
InactiveRowKept ==
  \E u \in Users : \E j \in Journals : \E k \in Journals :
    /\ SubRows(u, j) = <<FALSE>>
    /\ SubRows(u, k) = <<TRUE>>

\* C16: a step that changes a subscription leaves the delivery ledger and the
\* channel as they are, and right after a re-subscription to journal j the backlog
\* of the user holds, of the articles of j, those without a delivery record for
\* the user, whenever they were stored.
ResubscribeKeepsLedger ==
  [][\A u \in Users : \A j \in Journals :
       /\ SubRows(u, j)' # SubRows(u, j) => sent' = sent /\ delivered' = delivered
       /\ (SubRows(u, j) = <<FALSE>> /\ SubRows(u, j)' = <<TRUE>>)
            => \A a \in ArticleIds :
                 articles[a].journal = j
                   => (a \in UnsentSet(u)' <=> SentRows(u, a) = <<>>)]_vars

\* C16 witness: a user unsubscribed from a journal holds a delivery record for one
\* of its articles, and a create_article call has stored another article of it
\* that the user has no record for.
UnsubscribedWithHistory ==
  \E u \in Users : \E j \in Journals : \E a \in ArticleIds : \E b \in ArticleIds :
    /\ SubRows(u, j) = <<FALSE>>
    /\ articles[a].journal = j /\ SentRows(u, a) # <<>>
    /\ articles[b].journal = j /\ SentRows(u, b) = <<>>
    /\ \E c \in 1..NCallers :
         callers[c].result = "created" /\ callers[c].link = articles[b].link

\* C17: no step changes or removes a delivery record, and once
\* was_article_sent_to_user answers True for a pair it answers True ever after.
LedgerAppendOnly ==
  [][/\ \A p \in DOMAIN sent :
          /\ p \in DOMAIN sent'
          /\ Len(sent'[p]) >= Len(sent[p])
          /\ \A i \in DOMAIN sent[p] : sent'[p][i] = sent[p][i]
     /\ \A u \in Users : \A a \in ArticleIds :
          was_article_sent_to_user(u, a) = "yes"
            => was_article_sent_to_user(u, a)' = "yes"]_vars

\* A pass is between its first fetch and its last journal.
Running(p) == p.pc \in {"fetch", "cand", "update"}

\* C18: the scheduled pass and the startup silent sync are never running at the
\* same time.
PassesDoNotOverlap == ~(Running(sched) /\ Running(sync))

\* C19: every finished scheduled pass, and the finished silent sync, processed
\* every journal, whatever was raised while a journal was checked.
JournalIsolation ==
  /\ sched.pc = "idle" => \A j \in Journals : Len(runs[j]) = sched.id
  /\ sync.pc = "idle" => \A j \in Journals : Len(syncs[j]) = 1

\* C19 witness: a scheduled pass and the silent sync have both finished, each
\* after an error was raised in a journal that was not its last.
FinishedAfterError ==
  /\ sched.pc = "idle" /\ sched.id >= 1
  /\ \E j \in Journals : \E i \in DOMAIN runs[j] :
       j < NJournals /\ runs[j][i].outcome = "raised" /\ runs[j][i].pass = sched.id
  /\ Len(runs[NJournals]) = sched.id
  /\ sync.pc = "idle"
  /\ \E j \in Journals : j < NJournals /\ syncs[j][1].outcome = "raised"
  /\ Len(syncs[NJournals]) = 1

\* C20: a store operation called for a telegram id without a users row changes no
\* table and raises nothing into the handler that called it.
UnknownUserNoOp ==
  /\ escaped = {}
  /\ \A p \in DOMAIN subs : subs[p] # <<>> => users[p[1]] # "absent"
  /\ \A p \in DOMAIN sent : sent[p] # <<>> => users[p[1]] # "absent"

\* C21: when handle_journal_callback answers for a pair of a known user, the stored
\* subscription is the opposite of what it was when the handler began, and the
\* answer is Subscribed exactly when it was inactive or absent.
ToggleFlipsStoredState ==
  (hnd.kind = "journal" /\ hnd.pc = "answer" /\ users[hnd.user] # "absent")
    => /\ ActiveSub(hnd.user, hnd.journal) = ~hnd.was
       /\ (hnd.msg = "subscribed") = ~hnd.was
       /\ (hnd.msg = "unsubscribed") = hnd.was

\* The position of the link l in the candidate list c, 0 when it is not in it.
PositionIn(c, l) == IF l \in Range(c) THEN CHOOSE i \in DOMAIN c : c[i] = l ELSE 0

CleanedAbstractText(e) ==
  _clean_html(IF e.summary.has THEN e.summary.v
              ELSE IF e.description.has THEN e.description.v
              ELSE IF e.content.has THEN e.content.v[1].value.v ELSE <<>>)

\* C23: an entry whose cleaned abstract text has fewer than 50 characters is
\* returned without an abstract, and its candidate, when not stored, is scraped
\* exactly when its journal is flagged; a cleaned text of 50 characters or more is
\* returned as the abstract and its candidate is never scraped.
AbstractDiscardThreshold ==
  LET e == feed_content.entries[1]
      short == StrLen(CleanedAbstractText(e)) < 50
  IN /\ parsed.returned =>
          /\ Len(parsed.articles) = 1
          /\ short => Falsy(parsed.articles[1].abstract)
          /\ ~short => parsed.articles[1].abstract = Str(CleanedAbstractText(e))
     /\ \A c \in scraped : c.link = e.link => short
     /\ \A i \in DOMAIN runs[JournalOf(e.link)] :
          (runs[JournalOf(e.link)][i].fetch = "ok" /\ ~article_exists(e.link))
            => ((\E c \in scraped : c.link = e.link)
                  <=> (short /\ needs_scraping[JournalOf(e.link)]))

\* C23 witness: an entry whose summary cleans to 40 characters was returned without
\* an abstract and the check of its flagged journal scraped its link.
ShortAbstractScraped ==
  /\ parsed.returned
  /\ feed_content.entries[1].summary.has
  /\ StrLen(CleanedAbstractText(feed_content.entries[1])) = 40
  /\ parsed.articles[1].abstract = NoneStr
  /\ \E c \in scraped : c.link = 1 /\ c.journal = 1

\* The cleaned title of the entry is not empty.
HasTitle(e) == \E i \in DOMAIN e.title.v : e.title.v[i].kind \in {"text", "entity"}

\* The alternates of the entry that are dicts with an href.
Hrefs(e) == {i \in DOMAIN e.links : e.links[i].dict /\ e.links[i].href # 0}

\* The entry has a title, a link or an alternate with an href, and no creator
\* that is not a str (the one field whose extraction raises).
WellFormed(e) ==
  /\ HasTitle(e)
  /\ e.link # 0 \/ Hrefs(e) # {}
  /\ ~(e.dc_creator.has /\ NonStr \in Range(e.dc_creator.v))

\* The link of a well-formed entry: its link, else the href of its first alternate
\* that has one.
LinkOf(e) ==
  IF e.link # 0 THEN e.link
  ELSE e.links[CHOOSE i \in Hrefs(e) : \A k \in Hrefs(e) : i <= k].href

\* The positions of the well-formed entries of the content, ascending.
WellFormedAt == SortedSeq({i \in DOMAIN feed_content.entries :
                            WellFormed(feed_content.entries[i])})

\* C24: _parse_feed_content returns a list for every content: the empty list for
\* an empty content or one feedparser found no entry in, and otherwise one
\* candidate per well-formed entry, in feed order, with its title and link not
\* empty; the other entries are dropped one by one.
NormalizerDropsAlone ==
  parsed.returned =>
    /\ Len(parsed.articles) = Len(WellFormedAt)
    /\ \A k \in DOMAIN parsed.articles :
         /\ parsed.articles[k].link = LinkOf(feed_content.entries[WellFormedAt[k]])
         /\ parsed.articles[k].link # 0
         /\ parsed.articles[k].title # <<>>
    /\ (feed_content.empty \/ feed_content.entries = <<>>) => parsed.articles = <<>>

\* C24 witness: of two entries the first raised in the extraction and the second,
\* whose link is among its alternates, was returned.
SiblingReturnedAfterRaise ==
  /\ parsed.returned
  /\ Len(feed_content.entries) = 2
  /\ feed_content.entries[1].dc_creator.has
  /\ NonStr \in Range(feed_content.entries[1].dc_creator.v)
  /\ feed_content.entries[2].link = 0
  /\ Len(parsed.articles) = 1
  /\ parsed.articles[1].link = 2

\* The names of the first author source of the entry that yields any: the
\* structured list, else the singular author, else the creator.
FirstSourceNames(e) ==
  IF e.authors.has /\ ListNames(e.authors.v) # <<>> THEN ListNames(e.authors.v)
  ELSE IF e.author.has /\ e.author.v \notin {"", NonStr} THEN <<e.author.v>>
  ELSE IF e.dc_creator.has THEN e.dc_creator.v
  ELSE <<>>

\* C25: the authors of a returned candidate are the names of the first source of
\* its entry that yields names, joined; the sources after it are ignored.
AuthorsFirstSourceWins ==
  parsed.returned =>
    \A k \in DOMAIN parsed.articles :
      LET names == FirstSourceNames(feed_content.entries[WellFormedAt[k]])
      IN parsed.articles[k].authors =
           IF names = <<>> THEN [kind |-> "None", names |-> <<>>]
           ELSE [kind |-> "str", names |-> names]

\* The attempts of the dispatch that the channel accepted.
AcceptedAttempts == {i \in DOMAIN dispatch.attempts : dispatch.attempts[i].accepted}

\* C26: a dispatch makes at most two sends; the first has rich formatting; the
\* second is made only after the first was rejected and has the same text with
\* formatting disabled; a finished dispatch made the second if the first was
\* rejected; the text is the one the dispatch began with.
FormattingFallback ==
  /\ [](LET t == dispatch.attempts
        IN /\ Len(t) <= 2
           /\ \A i \in DOMAIN t : t[i].text = dispatch.text
           /\ Len(t) >= 1 => t[1].parse_mode = "Markdown"
           /\ Len(t) = 2 => ~t[1].accepted /\ t[2].parse_mode = "None"
           /\ dispatch.pc = "retry" => Len(t) = 1 /\ ~t[1].accepted
           /\ dispatch.pc \in {"returned", "raised"}
                => Len(t) >= 1 /\ (Len(t) = 1 => t[1].accepted)
           /\ dispatch.pc # "idle"
                => Delivered(dispatch.user, dispatch.article)
                     = Cardinality(AcceptedAttempts))
  /\ [][dispatch.pc \in {"first", "retry"}
          => /\ dispatch'.text = dispatch.text
             /\ Len(dispatch'.attempts) = Len(dispatch.attempts) + 1]_vars

\* C26 witness: the first send was rejected and the plain retry accepted.
PlainRetryAccepted ==
  /\ dispatch.pc = "returned"
  /\ Len(dispatch.attempts) = 2
  /\ ~dispatch.attempts[1].accepted
  /\ dispatch.attempts[2].accepted
  /\ Delivered(dispatch.user, dispatch.article) = 1

\* The step of handle_export_callback that settles the content to export.
ExportStep == exported.source = "none" /\ exported'.source # "none"

\* The content of the pair's most recent delivery record.
LatestRecordContent(u, a) ==
  tailored_content(u, a, SentRows(u, a)[Len(SentRows(u, a))])

\* C27: the exported content for (user, article) is the rendered content of the
\* pair's most recent delivery record and comes from nowhere else; the export
\* changes no article, subscription or delivery record.
ExportPureFunctionOfLedger ==
  [][ExportStep
       => /\ SentRows(exported'.user, exported'.article) # <<>>
          /\ exported'.content = LatestRecordContent(exported'.user, exported'.article)
          /\ UNCHANGED <<articles, subs, sent>>]_vars

\* C27, as the code has it: the exported content is the rendered content of the
\* pair's most recent delivery record when the pair has a record, and the text of
\* the message under the pressed button when it has none; the export changes no
\* article, subscription or delivery record.
ExportFromLedgerElseMessage ==
  [][ExportStep
       => /\ exported'.content =
               IF SentRows(exported'.user, exported'.article) # <<>>
               THEN LatestRecordContent(exported'.user, exported'.article)
               ELSE exported'.message
          /\ UNCHANGED <<articles, subs, sent>>]_vars

\* C27 witness: the pair has two records of different content and the export took
\* the content of the later one.
ExportedLatestOfTwo ==
  /\ exported.source = "record"
  /\ LET rows == SentRows(exported.user, exported.article)
     IN /\ Len(rows) = 2
        /\ rows[1].via # rows[2].via
        /\ exported.content = tailored_content(exported.user, exported.article, rows[2])

\* u has an active subscription to j, or the handler that ends it has not returned.
NotUnsubscribed(u, j) ==
  \/ ActiveSub(u, j)
  \/ hnd.kind = "journal" /\ hnd.user = u /\ hnd.journal = j

\* C28: once an unsubscribe of u from j has completed and until u subscribes again,
\* notify_subscribers dispatches no message for an article of j to u and records
\* no delivery for u, whatever the pass was doing when u unsubscribed.
NoDispatchAfterUnsubscribe ==
  [][/\ (notif.pc = "send" /\ notif'.pc = "mark" /\ notif'.sendok)
          => NotUnsubscribed(notif.subscribers[notif.k], notif.journal)
     /\ (notif.pc = "mark" /\ sent' # sent)
          => NotUnsubscribed(notif.subscribers[notif.k], notif.journal)]_vars

\* C29: with no new articles, unchanged subscriptions and every message tailored
\* and accepted, repeated /latest eventually leave the user's backlog empty for
\* good, the articles beyond the LIMIT of the first query included.
BacklogDrains == <>[](UnsentSet(1) = {})

\* C29 witness: a catalogue larger than the LIMIT, every article of which has been
\* delivered to the user and recorded, and no handler running.
WholeCatalogueDelivered ==
  /\ Len(articles) > UnsentLimit
  /\ hnd.pc = "idle"
  /\ \A a \in ArticleIds : Len(SentRows(1, a)) = 1 /\ Delivered(1, a) = 1
  /\ UnsentSet(1) = {}

\* The length of the front of the backlog that an invocation of /latest handles.
FrontLen == Min(Len(hnd.list), LatestBatch)

\* C30: an invocation of /latest handles at most 5 articles, the first 5 of the
\* user's newest-first backlog, one after the other in that order; after a failed
\* tailoring it goes on with the next of them; it marks none but the one it is
\* handling, so none beyond the first 5.
LatestHandlesFrontFive ==
  /\ [](hnd.kind = "latest"
         => /\ hnd.k \in 1..FrontLen
            /\ hnd.n = FrontLen
            /\ \A i, m \in DOMAIN hnd.list :
                  i < m => articles[hnd.list[m]].fetched_at <= articles[hnd.list[i]].fetched_at
            /\ hnd.pc \in {"send", "mark"} => hnd.article = hnd.list[hnd.k]
            /\ \A i \in (FrontLen + 1)..Len(hnd.list) : SentRows(hnd.user, hnd.list[i]) = <<>>)
  /\ [][/\ (hnd.kind # "latest" /\ hnd'.kind = "latest")
             => /\ hnd'.k = 1
                /\ Range(hnd'.list) \subseteq UnsentSet(hnd'.user)
                /\ Len(hnd'.list) = Min(Cardinality(UnsentSet(hnd'.user)), UnsentLimit)
        /\ (hnd.kind = "latest" /\ hnd'.kind = "latest")
             => /\ hnd'.list = hnd.list /\ hnd'.user = hnd.user
                /\ hnd'.k \in {hnd.k, hnd.k + 1}
                /\ hnd'.k = hnd.k + 1 => hnd'.pc = "tailor"
        /\ (hnd.kind = "latest" /\ hnd.pc = "tailor" /\ hnd'.pc # "send")
             => IF hnd.k < FrontLen
                THEN hnd'.kind = "latest" /\ hnd'.k = hnd.k + 1
                ELSE hnd' = NoHandler
        /\ (hnd.kind = "latest" /\ hnd'.kind # "latest") => hnd.k = FrontLen
        /\ (hnd.kind = "latest" /\ sent' # sent)
             => /\ hnd.k <= LatestBatch
                /\ sent' = mark_article_sent(hnd.user, hnd.list[hnd.k], "latest",
                                             hnd.sendok)]_vars

\* C30 witness: the backlog had more than 5 articles; tailoring failed for one of
\* the first 5, a later one of them was marked, and the invocation is at the fifth.
MarkedAfterTailorFailure ==
  /\ hnd.kind = "latest"
  /\ Len(hnd.list) > LatestBatch
  /\ hnd.k = LatestBatch
  /\ \E i, m \in 1..hnd.k :
       /\ i < m
       /\ SentRows(hnd.user, hnd.list[i]) = <<>>
       /\ SentRows(hnd.user, hnd.list[m]) # <<>>

====
